---- MODULE Spec2Model ----
(***************************************************************************)
(* Model of the streaming core of llm-sdk: the SSE event reader            *)
(* (utils.SSEReader), the four backend response streams (OpenAI, DeepSeek, *)
(* Anthropic, Gemini) and the stream processor (api.Process).              *)
(*                                                                         *)
(* Text is modelled as a sequence of tokens.  The tokens ":" , " " and     *)
(* "\n" are the three bytes the reader inspects; every other token is a    *)
(* run of bytes that the reader never looks into (a field name, or a       *)
(* payload such as a JSON document).  A Go string is a sequence of tokens, *)
(* the empty string is << >>, and string concatenation is \o.              *)
(***************************************************************************)
EXTENDS Naturals, Sequences, FiniteSets, TLC

\* ------------------------------------------------------------------ bounds
\* Longest sequence of raw events the server sends on one stream.
MaxEvents == 3
\* Most Recv calls a direct consumer makes on one stream.
MaxRecv == 5
\* Longest sequence of raw events on a stream driven by Process.
MaxProcEvents == 2
\* Longest sequence of raw events on a stream given to CollectFullContent.
MaxCollectEvents == 3
\* Longest sequence of raw events on a stream that its consumer closes.
MaxCloseEvents == 2
\* Most Close calls a consumer makes on one stream.
MaxClose == 2
\* Longest sequence of lines in a body read through the event reader alone.
MaxLines == 4
\* Most ReadEvent calls made on one reader.
MaxReads == 3
\* Largest MaxRetries a provider client is configured with.
MaxMaxRetries == 2
\* Longest sequence of raw events on a stream whose context is canceled.
MaxCancelEvents == 2
\* Most lines in a buffer given to processBuffer on its own.
MaxParseLines == 2

\* ------------------------------------------------------------------ tokens
NL == "\n"
COLON == ":"
SP == " "
DONE == "[DONE]"
BadJSON == "{bad"

\* JSON documents that appear as data values on the wire.
TxtHel == "{\"choices\":[{\"index\":0,\"delta\":{\"content\":\"Hel\"}}]}"
TxtLo == "{\"choices\":[{\"index\":0,\"delta\":{\"content\":\"lo\"}}]}"
TxtRole == "{\"choices\":[{\"index\":0,\"delta\":{\"role\":\"assistant\"}}]}"
TxtNoChoices == "{\"choices\":[]}"
TxtEmptyObj == "{}"
TxtMsgStart == "{\"type\":\"message_start\",\"message\":{\"id\":\"m1\"}}"
TxtBlockStart == "{\"type\":\"content_block_start\",\"index\":0,\"content_block\":{\"type\":\"text\"}}"
TxtBlockStartNone == "{\"type\":\"content_block_start\",\"index\":0}"
TxtDeltaA == "{\"type\":\"content_block_delta\",\"index\":0,\"delta\":{\"type\":\"text\",\"text\":\"a\"}}"
TxtDeltaB == "{\"type\":\"content_block_delta\",\"index\":1,\"delta\":{\"type\":\"text\",\"text\":\"b\"}}"
TxtDeltaJSON == "{\"type\":\"content_block_delta\",\"index\":0,\"delta\":{\"type\":\"input_json_delta\"}}"
TxtDeltaEmpty == "{\"type\":\"content_block_delta\",\"index\":1,\"delta\":{\"type\":\"text\",\"text\":\"\"}}"
TxtDeltaMissing == "{\"type\":\"content_block_delta\",\"index\":0}"
TxtBlockStop == "{\"type\":\"content_block_stop\",\"index\":0}"
TxtMsgDeltaMsg == "{\"type\":\"message_delta\",\"message\":{\"stop_reason\":\"end_turn\"}}"
TxtMsgDeltaDelta == "{\"type\":\"message_delta\",\"delta\":{\"stop_reason\":\"end_turn\"}}"
TxtMsgDeltaNone == "{\"type\":\"message_delta\",\"delta\":{}}"
TxtMsgStop == "{\"type\":\"message_stop\"}"
TxtPing == "{\"type\":\"ping\"}"
TxtCandHel == "{\"candidates\":[{\"content\":{\"parts\":[{\"text\":\"Hel\"}]},\"index\":0}]}"
TxtCandLo == "{\"candidates\":[{\"content\":{\"parts\":[{\"text\":\"l\"},{\"text\":\"o\"}]},\"index\":0}]}"
TxtCandFin == "{\"candidates\":[{\"finishReason\":\"STOP\",\"index\":0}]}"
TxtCandNone == "{\"candidates\":[]}"
TxtCandMany == "{\"candidates\":[{\"content\":{\"parts\":[{\"text\":\"a\"}]},\"index\":0},{\"content\":{\"parts\":[]},\"index\":1},{\"finishReason\":\"STOP\",\"index\":2}]}"
TxtCandFinText == "{\"candidates\":[{\"content\":{\"parts\":[{\"text\":\"x\"}]},\"finishReason\":\"STOP\",\"index\":0}]}"
TxtCandBlank == "{\"candidates\":[{\"content\":{\"parts\":[]},\"index\":0}]}"

\* ------------------------------------------------------------------ JSON
\* A decoded JSON object; a member that is absent from the text has Go's
\* zero value here, which is what encoding/json leaves in the target struct.
ZeroDelta == [type |-> <<>>, text |-> <<>>, stop_reason |-> <<>>]
ZeroObject ==
    [type |-> <<>>, index |-> 0,
     hasDelta |-> FALSE, delta |-> ZeroDelta,
     message |-> [stop_reason |-> <<>>],
     hasContentBlock |-> FALSE, content_block |-> [type |-> <<>>],
     choices |-> <<>>, candidates |-> <<>>]

DeltaChoice(role, content, finish) ==
    [index |-> 0, delta |-> [role |-> role, content |-> content],
     finish_reason |-> finish]

Candidate(parts, finish) ==
    [index |-> 0, finishReason |-> finish, parts |-> parts]

\* The object a JSON text denotes.
JSONObject(text) ==
    CASE text = TxtHel -> [ZeroObject EXCEPT !.choices = <<DeltaChoice(<<>>, <<"Hel">>, <<>>)>>]
      [] text = TxtLo -> [ZeroObject EXCEPT !.choices = <<DeltaChoice(<<>>, <<"lo">>, <<>>)>>]
      [] text = TxtRole -> [ZeroObject EXCEPT !.choices = <<DeltaChoice(<<"assistant">>, <<>>, <<>>)>>]
      [] text = TxtNoChoices -> ZeroObject
      [] text = TxtEmptyObj -> ZeroObject
      [] text = TxtMsgStart -> [ZeroObject EXCEPT !.type = <<"message_start">>]
      [] text = TxtBlockStart ->
            [ZeroObject EXCEPT !.type = <<"content_block_start">>,
                               !.hasContentBlock = TRUE,
                               !.content_block = [type |-> <<"text">>]]
      [] text = TxtBlockStartNone -> [ZeroObject EXCEPT !.type = <<"content_block_start">>]
      [] text = TxtDeltaA ->
            [ZeroObject EXCEPT !.type = <<"content_block_delta">>,
                               !.hasDelta = TRUE,
                               !.delta = [ZeroDelta EXCEPT !.type = <<"text">>, !.text = <<"a">>]]
      [] text = TxtDeltaB ->
            [ZeroObject EXCEPT !.type = <<"content_block_delta">>, !.index = 1,
                               !.hasDelta = TRUE,
                               !.delta = [ZeroDelta EXCEPT !.type = <<"text">>, !.text = <<"b">>]]
      [] text = TxtDeltaJSON ->
            [ZeroObject EXCEPT !.type = <<"content_block_delta">>,
                               !.hasDelta = TRUE,
                               !.delta = [ZeroDelta EXCEPT !.type = <<"input_json_delta">>]]
      [] text = TxtDeltaEmpty ->
            [ZeroObject EXCEPT !.type = <<"content_block_delta">>, !.index = 1,
                               !.hasDelta = TRUE,
                               !.delta = [ZeroDelta EXCEPT !.type = <<"text">>]]
      [] text = TxtDeltaMissing -> [ZeroObject EXCEPT !.type = <<"content_block_delta">>]
      [] text = TxtBlockStop -> [ZeroObject EXCEPT !.type = <<"content_block_stop">>]
      [] text = TxtMsgDeltaMsg ->
            [ZeroObject EXCEPT !.type = <<"message_delta">>,
                               !.message = [stop_reason |-> <<"end_turn">>]]
      [] text = TxtMsgDeltaDelta ->
            [ZeroObject EXCEPT !.type = <<"message_delta">>,
                               !.hasDelta = TRUE,
                               !.delta = [ZeroDelta EXCEPT !.stop_reason = <<"end_turn">>]]
      [] text = TxtMsgDeltaNone ->
            [ZeroObject EXCEPT !.type = <<"message_delta">>, !.hasDelta = TRUE]
      [] text = TxtMsgStop -> [ZeroObject EXCEPT !.type = <<"message_stop">>]
      [] text = TxtPing -> [ZeroObject EXCEPT !.type = <<"ping">>]
      [] text = TxtCandHel -> [ZeroObject EXCEPT !.candidates = <<Candidate(<< <<"Hel">> >>, <<>>)>>]
      [] text = TxtCandLo -> [ZeroObject EXCEPT !.candidates = <<Candidate(<< <<"l">>, <<"o">> >>, <<>>)>>]
      [] text = TxtCandFin -> [ZeroObject EXCEPT !.candidates = <<Candidate(<<>>, <<"STOP">>)>>]
      [] text = TxtCandNone -> ZeroObject
      [] text = TxtCandMany ->
            [ZeroObject EXCEPT !.candidates =
                <<Candidate(<< <<"a">> >>, <<>>),
                  [Candidate(<<>>, <<>>) EXCEPT !.index = 1],
                  [Candidate(<<>>, <<"STOP">>) EXCEPT !.index = 2]>>]
      [] text = TxtCandFinText ->
            [ZeroObject EXCEPT !.candidates = <<Candidate(<< <<"x">> >>, <<"STOP">>)>>]
      [] text = TxtCandBlank -> [ZeroObject EXCEPT !.candidates = <<Candidate(<<>>, <<>>)>>]
      [] OTHER -> ZeroObject

JSONTexts ==
    {TxtHel, TxtLo, TxtRole, TxtNoChoices, TxtEmptyObj, TxtMsgStart, TxtBlockStart,
     TxtBlockStartNone,
     TxtDeltaA, TxtDeltaB, TxtDeltaJSON, TxtDeltaEmpty, TxtDeltaMissing,
     TxtBlockStop, TxtMsgDeltaMsg,
     TxtMsgDeltaDelta, TxtMsgDeltaNone, TxtMsgStop, TxtPing, TxtCandHel,
     TxtCandLo, TxtCandFin, TxtCandNone, TxtCandBlank, TxtCandMany,
     TxtCandFinText}

IsSpace(tok) == tok = SP \/ tok = NL

RECURSIVE TrimLeft(_)
TrimLeft(s) ==
    IF Len(s) > 0 /\ IsSpace(Head(s)) THEN TrimLeft(Tail(s)) ELSE s

RECURSIVE TrimRight(_)
TrimRight(s) ==
    IF Len(s) > 0 /\ IsSpace(s[Len(s)]) THEN TrimRight(SubSeq(s, 1, Len(s) - 1)) ELSE s

\* Mutant of Unmarshal: text that is not a JSON value is accepted and leaves
\* the target at its zero value.
UnmarshalLenient(data) ==
    LET t == TrimRight(TrimLeft(data))
    IN  IF Len(t) = 1 /\ t[1] \in JSONTexts
        THEN [ok |-> TRUE, v |-> JSONObject(t[1])]
        ELSE [ok |-> TRUE, v |-> ZeroObject]

\* json.Unmarshal(data, &v): white space around the value is skipped; the
\* rest must be exactly one JSON value.  ok = FALSE is a non-nil error.
Unmarshal(data) ==
    LET t == TrimRight(TrimLeft(data))
    IN  IF Len(t) = 1 /\ t[1] \in JSONTexts
        THEN [ok |-> TRUE, v |-> JSONObject(t[1])]
        ELSE [ok |-> FALSE, v |-> ZeroObject]

\* ------------------------------------------------------------------ state
VARIABLES
    backend,    \* which provider's stream this is
    sent,       \* the raw events the server sends, in order (names of RawOf)
    wire,       \* the response body: the bytes of those events, as tokens
    srcEnd,     \* what the body returns once its bytes are used up
    pos,        \* SSEReader.reader: how many tokens of the body are consumed
    buffer,     \* SSEReader.buffer
    chunkID,    \* geminiResponseStream.chunkID
    closed,     \* how many times rawReader.Close was called
    results,    \* what each Recv call so far returned to its caller
    opts,       \* the StreamOptions Process runs with
    pc,         \* where Process is
    cur,        \* Process: the chunk of the current iteration
    perr,       \* Process: the error it is about to report and return
    calls,      \* Process: every call it made, in order
    fullContent,\* CollectFullContent: the text collected so far
    request,    \* the call made on a provider client: which method, and the
                \* caller's *api.Request: what it holds, and its Stream flag
    reqCopy,    \* CompleteStream: its copy of the request
    client,     \* the client's configuration: maxRetries, baseURL
    attempts,   \* how many times the call ran httpClient.Do
    resp,       \* the *http.Response the call holds
    retryCount, \* DoHTTPRequest: the loop counter
    lastErr,    \* DoHTTPRequest: the error of the latest attempt that failed
    ret         \* what the call returned to its caller

vars == <<backend, sent, wire, srcEnd, pos, buffer, chunkID, closed, results,
          opts, pc, cur, perr, calls, fullContent,
          request, reqCopy, client, attempts, resp, retryCount, lastErr, ret>>

streamVars == <<pos, buffer, chunkID, results>>
procVars == <<opts, pc, cur, perr, calls, fullContent>>
clientVars == <<request, reqCopy, client, attempts, resp, retryCount, lastErr, ret>>

\* ------------------------------------------------------------------ errors
ErrorTypeServer == "server_error"
ErrorTypeConnection == "connection_error"
ErrorTypeAuthentication == "authentication_error"
ErrorTypeInvalidRequest == "invalid_request_error"
ErrorTypeRateLimit == "rate_limit_error"
ErrorTypeTimeout == "timeout_error"
ErrorTypeUnknown == "unknown_error"

NoError == [kind |-> "nil", Type |-> "", Raw |-> ""]
EOF == [kind |-> "EOF", Type |-> "", Raw |-> ""]

\* api.NewError(errType, message, 0, rawErr); rawErr is named by what failed.
NewError(errType, rawErr) == [kind |-> "api.Error", Type |-> errType, Raw |-> rawErr]

\* No call on a provider client is in progress: the stream is already there.
NoRequest == [op |-> "none", kind |-> "none", Stream |-> FALSE]
NoResponse == [status |-> 0, body |-> "none"]
NoReturn == [value |-> "none", err |-> NoError]
IdleClient ==
    /\ request = NoRequest
    /\ reqCopy = NoRequest
    /\ client = [maxRetries |-> 0, baseURL |-> "ok"]
    /\ attempts = 0
    /\ resp = NoResponse
    /\ retryCount = 0
    /\ lastErr = NoError
    /\ ret = NoReturn

\* ------------------------------------------------------------------ SSE reader
ZeroEvent == [Event |-> <<>>, Data |-> <<>>, ID |-> <<>>, Retry |-> 0]
RetryDefault == 3000

\* bytes.Index: the first position of tok in s, 0 when it is not there.
RECURSIVE IndexFrom(_, _, _)
IndexFrom(s, tok, i) ==
    IF i > Len(s) THEN 0
    ELSE IF s[i] = tok THEN i
    ELSE IndexFrom(s, tok, i + 1)

\* bytes.Split(s, "\n")
RECURSIVE SplitLines(_)
SplitLines(s) ==
    LET n == IndexFrom(s, NL, 1)
    IN  IF n = 0 THEN <<s>>
        ELSE <<SubSeq(s, 1, n - 1)>> \o SplitLines(SubSeq(s, n + 1, Len(s)))

\* Mutant of parseLine: the space after the colon is kept in the value.
parseLineKeepsSpace(event, line) ==
    IF Len(line) = 0 THEN event
    ELSE IF line[1] = COLON THEN event
    ELSE LET c == IndexFrom(line, COLON, 1)
         IN  IF c = 0 THEN event
             ELSE LET field == SubSeq(line, 1, c - 1)
                      value == SubSeq(line, c + 1, Len(line))
                  IN  CASE field = <<"event">> -> [event EXCEPT !.Event = value]
                        [] field = <<"data">> ->
                              [event EXCEPT !.Data =
                                  IF event.Data # <<>> THEN event.Data \o <<NL>> \o value
                                  ELSE value]
                        [] field = <<"id">> -> [event EXCEPT !.ID = value]
                        [] field = <<"retry">> -> [event EXCEPT !.Retry = RetryDefault]
                        [] OTHER -> event

\* Mutant of parseLine: every leading space of the value is removed.
parseLineTrimsSpaces(event, line) ==
    IF Len(line) = 0 THEN event
    ELSE IF line[1] = COLON THEN event
    ELSE LET c == IndexFrom(line, COLON, 1)
         IN  IF c = 0 THEN event
             ELSE LET field == SubSeq(line, 1, c - 1)
                      value == TrimLeft(SubSeq(line, c + 1, Len(line)))
                  IN  CASE field = <<"event">> -> [event EXCEPT !.Event = value]
                        [] field = <<"data">> ->
                              [event EXCEPT !.Data =
                                  IF event.Data # <<>> THEN event.Data \o <<NL>> \o value
                                  ELSE value]
                        [] field = <<"id">> -> [event EXCEPT !.ID = value]
                        [] field = <<"retry">> -> [event EXCEPT !.Retry = RetryDefault]
                        [] OTHER -> event

\* One iteration of processBuffer's loop: the event after `line`.
parseLine(event, line) ==
    IF Len(line) = 0 THEN event
    ELSE IF line[1] = COLON THEN event
    ELSE LET c == IndexFrom(line, COLON, 1)
         IN  IF c = 0 THEN event
             ELSE LET field == SubSeq(line, 1, c - 1)
                      raw == SubSeq(line, c + 1, Len(line))
                      value == IF Len(raw) > 0 /\ raw[1] = SP THEN Tail(raw) ELSE raw
                  IN  CASE field = <<"event">> -> [event EXCEPT !.Event = value]
                        [] field = <<"data">> ->
                              [event EXCEPT !.Data =
                                  IF event.Data # <<>> THEN event.Data \o <<NL>> \o value
                                  ELSE value]
                        [] field = <<"id">> -> [event EXCEPT !.ID = value]
                        [] field = <<"retry">> -> [event EXCEPT !.Retry = RetryDefault]
                        [] OTHER -> event

RECURSIVE parseLines(_, _)
parseLines(event, lines) ==
    IF lines = <<>> THEN event
    ELSE parseLines(parseLine(event, Head(lines)), Tail(lines))

processBuffer(buf) == parseLines(ZeroEvent, SplitLines(buf))

\* bufio.Reader.ReadBytes('\n') at position p of the body: the next line with
\* its "\n", or what is left together with the body's error.  A body that
\* has ended or failed keeps returning io.EOF or its error to later reads.
ReadBytes(p) ==
    LET n == IndexFrom(wire, NL, p + 1)
    IN  IF n = 0
        THEN [line |-> SubSeq(wire, p + 1, Len(wire)), err |-> srcEnd, pos |-> Len(wire)]
        ELSE [line |-> SubSeq(wire, p + 1, n), err |-> "nil", pos |-> n]

delimiter == <<NL, NL>>

HasSuffix(s, suffix) ==
    Len(s) >= Len(suffix) /\ SubSeq(s, Len(s) - Len(suffix) + 1, Len(s)) = suffix

\* What ReadEvent returns, and the reader's state after it.
ReadResult(ok, event, err, p, buf) ==
    [ok |-> ok, event |-> event, err |-> err, pos |-> p, buffer |-> buf]

\* Mutant of ReadEvent: the buffer is not reset when a blank line ends an
\* event, so the lines of a returned event are parsed again with the next.
RECURSIVE ReadEventKeepsBuffer(_, _)
ReadEventKeepsBuffer(p, buf) ==
    LET rd == ReadBytes(p)
    IN  IF rd.err # "nil"
        THEN IF rd.err = "EOF" /\ Len(buf) > 0 /\ buf # <<NL>>
             THEN LET event == processBuffer(buf \o <<NL>>)
                  IN  IF event.Data # <<>> \/ event.Event # <<>>
                      THEN ReadResult(TRUE, event, "nil", rd.pos, <<>>)
                      ELSE ReadResult(FALSE, ZeroEvent, rd.err, rd.pos, <<>>)
             ELSE ReadResult(FALSE, ZeroEvent, rd.err, rd.pos, buf)
        ELSE LET b == buf \o rd.line
             IN  IF HasSuffix(b, delimiter)
                 THEN LET event == processBuffer(b)
                      IN  IF event.Data # <<>> \/ event.Event # <<>>
                          THEN ReadResult(TRUE, event, "nil", rd.pos, b)
                          ELSE ReadEventKeepsBuffer(rd.pos, <<>>)
                 ELSE ReadEventKeepsBuffer(rd.pos, b)

\* Mutant of ReadEvent: the event of a group ended by a blank line is
\* returned without the test that it has data or a name.
RECURSIVE ReadEventSurfacesEmpty(_, _)
ReadEventSurfacesEmpty(p, buf) ==
    LET rd == ReadBytes(p)
    IN  IF rd.err # "nil"
        THEN IF rd.err = "EOF" /\ Len(buf) > 0 /\ buf # <<NL>>
             THEN LET event == processBuffer(buf \o <<NL>>)
                  IN  IF event.Data # <<>> \/ event.Event # <<>>
                      THEN ReadResult(TRUE, event, "nil", rd.pos, <<>>)
                      ELSE ReadResult(FALSE, ZeroEvent, rd.err, rd.pos, <<>>)
             ELSE ReadResult(FALSE, ZeroEvent, rd.err, rd.pos, buf)
        ELSE LET b == buf \o rd.line
             IN  IF HasSuffix(b, delimiter)
                    \/ (Len(rd.line) = 1 /\ rd.line[1] = NL /\ Len(b) > 1 /\ b[Len(b) - 1] = NL)
                 THEN ReadResult(TRUE, processBuffer(b), "nil", rd.pos, <<>>)
                 ELSE ReadEventSurfacesEmpty(rd.pos, b)

\* Mutant of ReadEvent: at the end of the input the error is returned
\* without a look at what the buffer still holds.
RECURSIVE ReadEventDropsPending(_, _)
ReadEventDropsPending(p, buf) ==
    LET rd == ReadBytes(p)
    IN  IF rd.err # "nil"
        THEN ReadResult(FALSE, ZeroEvent, rd.err, rd.pos, buf)
        ELSE LET b == buf \o rd.line
             IN  IF HasSuffix(b, delimiter)
                    \/ (Len(rd.line) = 1 /\ rd.line[1] = NL /\ Len(b) > 1 /\ b[Len(b) - 1] = NL)
                 THEN LET event == processBuffer(b)
                      IN  IF event.Data # <<>> \/ event.Event # <<>>
                          THEN ReadResult(TRUE, event, "nil", rd.pos, <<>>)
                          ELSE ReadEventDropsPending(rd.pos, <<>>)
                 ELSE ReadEventDropsPending(rd.pos, b)

\* Mutant of ReadEvent: the buffer is parsed and returned on any error of
\* the body, not on io.EOF alone.
RECURSIVE ReadEventFlushesOnError(_, _)
ReadEventFlushesOnError(p, buf) ==
    LET rd == ReadBytes(p)
    IN  IF rd.err # "nil"
        THEN IF Len(buf) > 0 /\ buf # <<NL>>
             THEN LET event == processBuffer(buf \o <<NL>>)
                  IN  IF event.Data # <<>> \/ event.Event # <<>>
                      THEN ReadResult(TRUE, event, "nil", rd.pos, <<>>)
                      ELSE ReadResult(FALSE, ZeroEvent, rd.err, rd.pos, <<>>)
             ELSE ReadResult(FALSE, ZeroEvent, rd.err, rd.pos, buf)
        ELSE LET b == buf \o rd.line
             IN  IF HasSuffix(b, delimiter)
                    \/ (Len(rd.line) = 1 /\ rd.line[1] = NL /\ Len(b) > 1 /\ b[Len(b) - 1] = NL)
                 THEN LET event == processBuffer(b)
                      IN  IF event.Data # <<>> \/ event.Event # <<>>
                          THEN ReadResult(TRUE, event, "nil", rd.pos, <<>>)
                          ELSE ReadEventFlushesOnError(rd.pos, <<>>)
                 ELSE ReadEventFlushesOnError(rd.pos, b)

\* Mutant of ReadEvent: the buffer is reset only when an event is returned;
\* the lines of a group dropped as empty stay in it.
RECURSIVE ReadEventKeepsDropped(_, _)
ReadEventKeepsDropped(p, buf) ==
    LET rd == ReadBytes(p)
    IN  IF rd.err # "nil"
        THEN IF rd.err = "EOF" /\ Len(buf) > 0 /\ buf # <<NL>>
             THEN LET event == processBuffer(buf \o <<NL>>)
                  IN  IF event.Data # <<>> \/ event.Event # <<>>
                      THEN ReadResult(TRUE, event, "nil", rd.pos, <<>>)
                      ELSE ReadResult(FALSE, ZeroEvent, rd.err, rd.pos, <<>>)
             ELSE ReadResult(FALSE, ZeroEvent, rd.err, rd.pos, buf)
        ELSE LET b == buf \o rd.line
             IN  IF HasSuffix(b, delimiter)
                    \/ (Len(rd.line) = 1 /\ rd.line[1] = NL /\ Len(b) > 1 /\ b[Len(b) - 1] = NL)
                 THEN LET event == processBuffer(b)
                      IN  IF event.Data # <<>> \/ event.Event # <<>>
                          THEN ReadResult(TRUE, event, "nil", rd.pos, <<>>)
                          ELSE ReadEventKeepsDropped(rd.pos, b)
                 ELSE ReadEventKeepsDropped(rd.pos, b)

\* Mutant of ReadEvent: the bytes ReadBytes returns together with io.EOF are
\* added to the buffer before it is parsed.
RECURSIVE ReadEventKeepsPartial(_, _)
ReadEventKeepsPartial(p, buf) ==
    LET rd == ReadBytes(p)
    IN  IF rd.err # "nil"
        THEN IF rd.err = "EOF" /\ Len(buf \o rd.line) > 0 /\ buf \o rd.line # <<NL>>
             THEN LET event == processBuffer(buf \o rd.line \o <<NL>>)
                  IN  IF event.Data # <<>> \/ event.Event # <<>>
                      THEN ReadResult(TRUE, event, "nil", rd.pos, <<>>)
                      ELSE ReadResult(FALSE, ZeroEvent, rd.err, rd.pos, <<>>)
             ELSE ReadResult(FALSE, ZeroEvent, rd.err, rd.pos, buf)
        ELSE LET b == buf \o rd.line
             IN  IF HasSuffix(b, delimiter)
                    \/ (Len(rd.line) = 1 /\ rd.line[1] = NL /\ Len(b) > 1 /\ b[Len(b) - 1] = NL)
                 THEN LET event == processBuffer(b)
                      IN  IF event.Data # <<>> \/ event.Event # <<>>
                          THEN ReadResult(TRUE, event, "nil", rd.pos, <<>>)
                          ELSE ReadEventKeepsPartial(rd.pos, <<>>)
                 ELSE ReadEventKeepsPartial(rd.pos, b)

\* SSEReader.ReadEvent with the reader at position p holding buffer buf.
RECURSIVE ReadEvent(_, _)
ReadEvent(p, buf) ==
    LET rd == ReadBytes(p)
    IN  IF rd.err # "nil"
        THEN IF rd.err = "EOF" /\ Len(buf) > 0 /\ buf # <<NL>>
             THEN LET event == processBuffer(buf \o <<NL>>)
                  IN  IF event.Data # <<>> \/ event.Event # <<>>
                      THEN ReadResult(TRUE, event, "nil", rd.pos, <<>>)
                      ELSE ReadResult(FALSE, ZeroEvent, rd.err, rd.pos, <<>>)
             ELSE ReadResult(FALSE, ZeroEvent, rd.err, rd.pos, buf)
        ELSE LET b == buf \o rd.line
             IN  IF HasSuffix(b, delimiter)
                    \/ (Len(rd.line) = 1 /\ rd.line[1] = NL /\ Len(b) > 1 /\ b[Len(b) - 1] = NL)
                 THEN LET event == processBuffer(b)
                      IN  IF event.Data # <<>> \/ event.Event # <<>>
                          THEN ReadResult(TRUE, event, "nil", rd.pos, <<>>)
                          ELSE ReadEvent(rd.pos, <<>>)
                 ELSE ReadEvent(rd.pos, b)

\* utils.ParseSSEData
ParseSSEData(data) ==
    IF Len(data) >= 3 /\ SubSeq(data, 1, 3) = <<"data", COLON, SP>>
    THEN SubSeq(data, 4, Len(data))
    ELSE data

\* ------------------------------------------------------------------ streams
RoleAssistant == <<"assistant">>
ObjectChunk == <<"chat.completion.chunk">>

ChunkChoice(index, role, content, finish) ==
    [Index |-> index, Delta |-> [Role |-> role, Content |-> content],
     FinishReason |-> finish]

ResponseChunk(id, object, choices) ==
    [ID |-> id, Object |-> object, Choices |-> choices]

\* What a backend's Recv returns, (chunk, err), with a nil chunk as << >>,
\* and the stream's state after it: the reader's position and buffer and the
\* Gemini counter.  read is the raw event the returning call of the recursion
\* got from ReadEvent, << >> when ReadEvent gave it an error.
RecvResult(chunk, err, rd, id) ==
    [chunk |-> chunk, err |-> err, pos |-> rd.pos, buffer |-> rd.buffer,
     chunkID |-> id, read |-> IF rd.ok THEN <<rd.event>> ELSE <<>>]

\* Mutant of readError: the transport's error is returned as it is, not
\* wrapped in an *api.Error.
readErrorUnwrapped(rd) ==
    IF rd.err = "EOF" THEN EOF ELSE [kind |-> "transport", Type |-> "", Raw |-> rd.err]

\* The error Recv makes of a failed ReadEvent.
readError(rd) ==
    IF rd.err = "EOF" THEN EOF ELSE NewError(ErrorTypeServer, rd.err)

\* The conversion loop of the simple-delta streams.
deltaChoices(choices) ==
    [i \in 1..Len(choices) |->
        ChunkChoice(choices[i].index, choices[i].delta.role,
                    choices[i].delta.content, choices[i].finish_reason)]

\* Mutant of openaiRecv: the "[DONE]" test is missing, so the sentinel goes
\* to the JSON parser like any other data value.
RECURSIVE openaiRecvNoSentinel(_, _, _)
openaiRecvNoSentinel(p, buf, id) ==
    LET rd == ReadEvent(p, buf)
    IN  IF ~rd.ok THEN RecvResult(<<>>, readError(rd), rd, id)
        ELSE IF rd.event.Data = <<>>
        THEN openaiRecvNoSentinel(rd.pos, rd.buffer, id)
        ELSE LET streamResp == Unmarshal(ParseSSEData(rd.event.Data))
             IN  IF ~streamResp.ok
                 THEN RecvResult(<<>>, NewError(ErrorTypeServer, "json"), rd, id)
                 ELSE RecvResult(
                        <<ResponseChunk(<<>>, <<>>, deltaChoices(streamResp.v.choices))>>,
                        NoError, rd, id)

\* openaiResponseStream.Recv
RECURSIVE openaiRecv(_, _, _)
openaiRecv(p, buf, id) ==
    LET rd == ReadEvent(p, buf)
    IN  IF ~rd.ok THEN RecvResult(<<>>, readError(rd), rd, id)
        ELSE IF rd.event.Data = <<>> \/ rd.event.Data = <<DONE>>
        THEN IF rd.event.Data = <<DONE>>
             THEN RecvResult(<<>>, EOF, rd, id)
             ELSE openaiRecv(rd.pos, rd.buffer, id)
        ELSE LET streamResp == Unmarshal(ParseSSEData(rd.event.Data))
             IN  IF ~streamResp.ok
                 THEN RecvResult(<<>>, NewError(ErrorTypeServer, "json"), rd, id)
                 ELSE RecvResult(
                        <<ResponseChunk(<<>>, <<>>, deltaChoices(streamResp.v.choices))>>,
                        NoError, rd, id)

\* deepseekResponseStream.Recv, of the DeepSeek client that reads the body
\* through utils.SSEReader.  (The tree holds a second, older DeepSeek client
\* whose Recv reads nothing and always returns an unknown_error *api.Error.)
RECURSIVE deepseekRecv(_, _, _)
deepseekRecv(p, buf, id) ==
    LET rd == ReadEvent(p, buf)
    IN  IF ~rd.ok THEN RecvResult(<<>>, readError(rd), rd, id)
        ELSE IF rd.event.Data = <<>> \/ rd.event.Data = <<DONE>>
        THEN IF rd.event.Data = <<DONE>>
             THEN RecvResult(<<>>, EOF, rd, id)
             ELSE deepseekRecv(rd.pos, rd.buffer, id)
        ELSE LET streamResp == Unmarshal(ParseSSEData(rd.event.Data))
             IN  IF ~streamResp.ok
                 THEN RecvResult(<<>>, NewError(ErrorTypeServer, "json"), rd, id)
                 ELSE RecvResult(
                        <<ResponseChunk(<<>>, <<>>, deltaChoices(streamResp.v.choices))>>,
                        NoError, rd, id)

\* Mutant of anthropicRecv: an event of a type the stream does not act on is
\* an error.
RECURSIVE anthropicRecvFailsOnUnknown(_, _, _)
anthropicRecvFailsOnUnknown(p, buf, id) ==
    LET rd == ReadEvent(p, buf)
    IN  IF ~rd.ok THEN RecvResult(<<>>, readError(rd), rd, id)
        ELSE IF rd.event.Data = <<>> THEN anthropicRecvFailsOnUnknown(rd.pos, rd.buffer, id)
        ELSE LET streamResp == Unmarshal(ParseSSEData(rd.event.Data))
                 v == streamResp.v
             IN  IF ~streamResp.ok
                 THEN RecvResult(<<>>, NewError(ErrorTypeServer, "json"), rd, id)
                 ELSE CASE v.type = <<"message_stop">> -> RecvResult(<<>>, EOF, rd, id)
                        [] v.type = <<"content_block_delta">> ->
                              IF ~v.hasDelta \/ v.delta.type # <<"text">>
                              THEN anthropicRecvFailsOnUnknown(rd.pos, rd.buffer, id)
                              ELSE RecvResult(
                                     <<ResponseChunk(<<>>, ObjectChunk,
                                         <<ChunkChoice(v.index, RoleAssistant, v.delta.text, <<>>)>>)>>,
                                     NoError, rd, id)
                        [] v.type = <<"message_delta">> ->
                              IF v.message.stop_reason # <<>>
                              THEN RecvResult(<<>>, EOF, rd, id)
                              ELSE anthropicRecvFailsOnUnknown(rd.pos, rd.buffer, id)
                        [] v.type \in {<<"message_start">>, <<"content_block_start">>} ->
                              anthropicRecvFailsOnUnknown(rd.pos, rd.buffer, id)
                        [] OTHER -> RecvResult(<<>>, NewError(ErrorTypeServer, "type"), rd, id)

\* Mutant of anthropicRecv: a text delta with empty text is passed over.
RECURSIVE anthropicRecvSkipsEmptyText(_, _, _)
anthropicRecvSkipsEmptyText(p, buf, id) ==
    LET rd == ReadEvent(p, buf)
    IN  IF ~rd.ok THEN RecvResult(<<>>, readError(rd), rd, id)
        ELSE IF rd.event.Data = <<>> THEN anthropicRecvSkipsEmptyText(rd.pos, rd.buffer, id)
        ELSE LET streamResp == Unmarshal(ParseSSEData(rd.event.Data))
                 v == streamResp.v
             IN  IF ~streamResp.ok
                 THEN RecvResult(<<>>, NewError(ErrorTypeServer, "json"), rd, id)
                 ELSE CASE v.type = <<"message_stop">> -> RecvResult(<<>>, EOF, rd, id)
                        [] v.type = <<"content_block_delta">> ->
                              IF ~v.hasDelta \/ v.delta.type # <<"text">> \/ v.delta.text = <<>>
                              THEN anthropicRecvSkipsEmptyText(rd.pos, rd.buffer, id)
                              ELSE RecvResult(
                                     <<ResponseChunk(<<>>, ObjectChunk,
                                         <<ChunkChoice(v.index, RoleAssistant, v.delta.text, <<>>)>>)>>,
                                     NoError, rd, id)
                        [] v.type = <<"message_delta">> ->
                              IF v.message.stop_reason # <<>>
                              THEN RecvResult(<<>>, EOF, rd, id)
                              ELSE anthropicRecvSkipsEmptyText(rd.pos, rd.buffer, id)
                        [] OTHER -> anthropicRecvSkipsEmptyText(rd.pos, rd.buffer, id)

\* anthropicResponseStream.Recv
RECURSIVE anthropicRecv(_, _, _)
anthropicRecv(p, buf, id) ==
    LET rd == ReadEvent(p, buf)
    IN  IF ~rd.ok THEN RecvResult(<<>>, readError(rd), rd, id)
        ELSE IF rd.event.Data = <<>> THEN anthropicRecv(rd.pos, rd.buffer, id)
        ELSE LET streamResp == Unmarshal(ParseSSEData(rd.event.Data))
                 v == streamResp.v
             IN  IF ~streamResp.ok
                 THEN RecvResult(<<>>, NewError(ErrorTypeServer, "json"), rd, id)
                 ELSE CASE v.type = <<"message_stop">> -> RecvResult(<<>>, EOF, rd, id)
                        [] v.type = <<"content_block_delta">> ->
                              IF ~v.hasDelta \/ v.delta.type # <<"text">>
                              THEN anthropicRecv(rd.pos, rd.buffer, id)
                              ELSE RecvResult(
                                     <<ResponseChunk(<<>>, ObjectChunk,
                                         <<ChunkChoice(v.index, RoleAssistant, v.delta.text, <<>>)>>)>>,
                                     NoError, rd, id)
                        [] v.type = <<"content_block_start">> ->
                              IF ~v.hasContentBlock \/ v.content_block.type # <<"text">>
                              THEN anthropicRecv(rd.pos, rd.buffer, id)
                              ELSE anthropicRecv(rd.pos, rd.buffer, id)
                        [] v.type = <<"message_start">> -> anthropicRecv(rd.pos, rd.buffer, id)
                        [] v.type = <<"message_delta">> ->
                              IF v.message.stop_reason # <<>>
                              THEN RecvResult(<<>>, EOF, rd, id)
                              ELSE anthropicRecv(rd.pos, rd.buffer, id)
                        [] OTHER -> anthropicRecv(rd.pos, rd.buffer, id)

\* content += part.Text over a candidate's parts
RECURSIVE partsText(_)
partsText(parts) ==
    IF parts = <<>> THEN <<>> ELSE Head(parts) \o partsText(Tail(parts))

\* Mutant of geminiChoices: a candidate's text is tested before its finish
\* reason.
RECURSIVE geminiChoicesTextFirst(_)
geminiChoicesTextFirst(candidates) ==
    IF candidates = <<>> THEN <<>>
    ELSE LET candidate == Head(candidates)
             content == partsText(candidate.parts)
             rest == geminiChoicesTextFirst(Tail(candidates))
         IN  IF content # <<>>
             THEN <<ChunkChoice(candidate.index, RoleAssistant, content, <<>>)>> \o rest
             ELSE IF candidate.finishReason # <<>>
             THEN <<ChunkChoice(candidate.index, RoleAssistant, <<>>, candidate.finishReason)>> \o rest
             ELSE rest

\* The candidates loop of geminiResponseStream.Recv
RECURSIVE geminiChoices(_)
geminiChoices(candidates) ==
    IF candidates = <<>> THEN <<>>
    ELSE LET candidate == Head(candidates)
             content == partsText(candidate.parts)
             rest == geminiChoices(Tail(candidates))
         IN  IF candidate.finishReason # <<>>
             THEN <<ChunkChoice(candidate.index, RoleAssistant, <<>>, candidate.finishReason)>> \o rest
             ELSE IF content # <<>>
             THEN <<ChunkChoice(candidate.index, RoleAssistant, content, <<>>)>> \o rest
             ELSE rest

\* Mutant of geminiRecv: an event without candidates is taken for the end
\* of the response.
RECURSIVE geminiRecvEmptyEnds(_, _, _)
geminiRecvEmptyEnds(p, buf, id) ==
    LET rd == ReadEvent(p, buf)
    IN  IF ~rd.ok THEN RecvResult(<<>>, readError(rd), rd, id)
        ELSE IF rd.event.Data = <<>> THEN geminiRecvEmptyEnds(rd.pos, rd.buffer, id)
        ELSE LET streamResp == Unmarshal(ParseSSEData(rd.event.Data))
                 choices == geminiChoices(streamResp.v.candidates)
             IN  IF ~streamResp.ok
                 THEN RecvResult(<<>>, NewError(ErrorTypeServer, "json"), rd, id)
                 ELSE IF Len(streamResp.v.candidates) = 0
                 THEN RecvResult(<<>>, EOF, rd, id)
                 ELSE IF Len(choices) = 0
                 THEN geminiRecvEmptyEnds(rd.pos, rd.buffer, id)
                 ELSE RecvResult(
                        <<ResponseChunk(<<"chunk-", id + 1>>, ObjectChunk, choices)>>,
                        NoError, rd, id + 1)

\* Mutant of geminiRecv: the "[DONE]" sentinel of the simple-delta streams
\* is honoured here too.
RECURSIVE geminiRecvSentinel(_, _, _)
geminiRecvSentinel(p, buf, id) ==
    LET rd == ReadEvent(p, buf)
    IN  IF ~rd.ok THEN RecvResult(<<>>, readError(rd), rd, id)
        ELSE IF rd.event.Data = <<>> THEN geminiRecvSentinel(rd.pos, rd.buffer, id)
        ELSE IF rd.event.Data = <<DONE>> THEN RecvResult(<<>>, EOF, rd, id)
        ELSE LET streamResp == Unmarshal(ParseSSEData(rd.event.Data))
                 choices == geminiChoices(streamResp.v.candidates)
             IN  IF ~streamResp.ok
                 THEN RecvResult(<<>>, NewError(ErrorTypeServer, "json"), rd, id)
                 ELSE IF Len(streamResp.v.candidates) = 0
                 THEN geminiRecvSentinel(rd.pos, rd.buffer, id)
                 ELSE IF Len(choices) = 0
                 THEN geminiRecvSentinel(rd.pos, rd.buffer, id)
                 ELSE RecvResult(
                        <<ResponseChunk(<<"chunk-", id + 1>>, ObjectChunk, choices)>>,
                        NoError, rd, id + 1)

\* Mutant of geminiRecv: the counter advances for every raw event with
\* data, skipped or not.
RECURSIVE geminiRecvCountsSkipped(_, _, _)
geminiRecvCountsSkipped(p, buf, id) ==
    LET rd == ReadEvent(p, buf)
    IN  IF ~rd.ok THEN RecvResult(<<>>, readError(rd), rd, id)
        ELSE IF rd.event.Data = <<>> THEN geminiRecvCountsSkipped(rd.pos, rd.buffer, id)
        ELSE LET streamResp == Unmarshal(ParseSSEData(rd.event.Data))
                 choices == geminiChoices(streamResp.v.candidates)
             IN  IF ~streamResp.ok
                 THEN RecvResult(<<>>, NewError(ErrorTypeServer, "json"), rd, id)
                 ELSE IF Len(streamResp.v.candidates) = 0
                 THEN geminiRecvCountsSkipped(rd.pos, rd.buffer, id + 1)
                 ELSE IF Len(choices) = 0
                 THEN geminiRecvCountsSkipped(rd.pos, rd.buffer, id + 1)
                 ELSE RecvResult(
                        <<ResponseChunk(<<"chunk-", id + 1>>, ObjectChunk, choices)>>,
                        NoError, rd, id + 1)

\* geminiResponseStream.Recv
RECURSIVE geminiRecv(_, _, _)
geminiRecv(p, buf, id) ==
    LET rd == ReadEvent(p, buf)
    IN  IF ~rd.ok THEN RecvResult(<<>>, readError(rd), rd, id)
        ELSE IF rd.event.Data = <<>> THEN geminiRecv(rd.pos, rd.buffer, id)
        ELSE LET streamResp == Unmarshal(ParseSSEData(rd.event.Data))
                 choices == geminiChoices(streamResp.v.candidates)
             IN  IF ~streamResp.ok
                 THEN RecvResult(<<>>, NewError(ErrorTypeServer, "json"), rd, id)
                 ELSE IF Len(streamResp.v.candidates) = 0
                 THEN geminiRecv(rd.pos, rd.buffer, id)
                 ELSE IF Len(choices) = 0
                 THEN geminiRecv(rd.pos, rd.buffer, id)
                 ELSE RecvResult(
                        <<ResponseChunk(<<"chunk-", id + 1>>, ObjectChunk, choices)>>,
                        NoError, rd, id + 1)

\* ------------------------------------------------------------------ the server
Raw(name, data) == [Event |-> name, Data |-> data]

\* The raw events a simple-delta server (OpenAI, DeepSeek) may send.
SimpleEvents ==
    {Raw(<<>>, <<TxtHel>>), Raw(<<>>, <<TxtLo>>), Raw(<<>>, <<TxtRole>>),
     Raw(<<>>, <<TxtNoChoices>>), Raw(<<>>, <<TxtEmptyObj>>),
     Raw(<<>>, <<DONE>>), Raw(<<>>, <<BadJSON>>), Raw(<<"ping">>, <<>>)}

\* The raw events an Anthropic server may send.
AnthropicEvents ==
    {Raw(<<"message_start">>, <<TxtMsgStart>>),
     Raw(<<>>, <<TxtBlockStart>>), Raw(<<>>, <<TxtBlockStartNone>>),
     Raw(<<>>, <<TxtDeltaA>>), Raw(<<>>, <<TxtDeltaB>>), Raw(<<>>, <<TxtDeltaJSON>>),
     Raw(<<>>, <<TxtDeltaEmpty>>), Raw(<<>>, <<TxtDeltaMissing>>),
     Raw(<<>>, <<TxtBlockStop>>),
     Raw(<<>>, <<TxtMsgDeltaMsg>>), Raw(<<>>, <<TxtMsgDeltaDelta>>),
     Raw(<<>>, <<TxtMsgDeltaNone>>),
     Raw(<<"message_stop">>, <<TxtMsgStop>>),
     Raw(<<>>, <<TxtPing>>), Raw(<<"ping">>, <<>>), Raw(<<>>, <<BadJSON>>)}

\* The raw events a Gemini server may send.
GeminiEvents ==
    {Raw(<<>>, <<TxtCandHel>>), Raw(<<>>, <<TxtCandLo>>), Raw(<<>>, <<TxtCandFin>>),
     Raw(<<>>, <<TxtCandNone>>), Raw(<<>>, <<TxtEmptyObj>>), Raw(<<>>, <<TxtCandBlank>>),
     Raw(<<>>, <<TxtCandMany>>), Raw(<<>>, <<TxtCandFinText>>),
     Raw(<<>>, <<DONE>>), Raw(<<>>, <<BadJSON>>), Raw(<<"ping">>, <<>>)}

Backends == {"openai", "deepseek", "anthropic", "gemini"}

EventsOf(b) ==
    CASE b = "anthropic" -> AnthropicEvents
      [] b = "gemini" -> GeminiEvents
      [] OTHER -> SimpleEvents

\* One raw event in the wire format: its event line, its data line and the
\* blank line that ends it.
Render(raw) ==
    (IF raw.Event # <<>> THEN <<"event", COLON, SP>> \o raw.Event \o <<NL>> ELSE <<>>)
    \o (IF raw.Data # <<>> THEN <<"data", COLON, SP>> \o raw.Data \o <<NL>> ELSE <<>>)
    \o <<NL>>

RECURSIVE RenderAll(_)
RenderAll(events) ==
    IF events = <<>> THEN <<>> ELSE Render(Head(events)) \o RenderAll(Tail(events))

SeqsUpTo(S, n) == UNION {[1..k -> S] : k \in 0..n}

\* The raw event of `sent` whose last byte is byte p of the body; Len(sent) + 1
\* when the call ended on the body's end or error and not on a raw event.
EventAt(r) ==
    IF r.read = <<>> THEN Len(sent) + 1
    ELSE CHOOSE k \in 1..Len(sent) : Len(RenderAll(SubSeq(sent, 1, k))) = r.pos

\* ------------------------------------------------------------------ a direct consumer
NoOptions == [isNil |-> TRUE, OnChunk |-> FALSE, OnText |-> FALSE,
              OnComplete |-> FALSE, namesAutoClose |-> FALSE, AutoClose |-> FALSE]
NoChunk == ResponseChunk(<<>>, <<>>, <<>>)

InitStream(n) ==
    /\ backend \in Backends
    /\ sent \in SeqsUpTo(EventsOf(backend), n)
    /\ wire = RenderAll(sent)
    /\ srcEnd \in {"EOF", "reset"}
    /\ pos = 0
    /\ buffer = <<>>
    /\ chunkID = 0
    /\ closed = 0
    /\ results = <<>>

Init ==
    /\ InitStream(MaxEvents)
    /\ opts = NoOptions
    /\ pc = "direct"
    /\ cur = NoChunk
    /\ perr = NoError
    /\ calls = <<>>
    /\ fullContent = <<>>
    /\ IdleClient

\* The stream takes the state r leaves it in, and the caller sees r.  A
\* consumer calls Recv on a stream it has not closed.
Returned(r) ==
    /\ pos' = r.pos
    /\ buffer' = r.buffer
    /\ chunkID' = r.chunkID
    /\ results' = Append(results, [chunk |-> r.chunk, err |-> r.err, at |-> EventAt(r)])

OpenAIRecv ==
    /\ pc = "direct" /\ backend = "openai" /\ Len(results) < MaxRecv
    /\ closed = 0
    /\ Returned(openaiRecv(pos, buffer, chunkID))
    /\ UNCHANGED <<clientVars, backend, sent, wire, srcEnd, closed, procVars>>

DeepSeekRecv ==
    /\ pc = "direct" /\ backend = "deepseek" /\ Len(results) < MaxRecv
    /\ closed = 0
    /\ Returned(deepseekRecv(pos, buffer, chunkID))
    /\ UNCHANGED <<clientVars, backend, sent, wire, srcEnd, closed, procVars>>

AnthropicRecv ==
    /\ pc = "direct" /\ backend = "anthropic" /\ Len(results) < MaxRecv
    /\ closed = 0
    /\ Returned(anthropicRecv(pos, buffer, chunkID))
    /\ UNCHANGED <<clientVars, backend, sent, wire, srcEnd, closed, procVars>>

GeminiRecv ==
    /\ pc = "direct" /\ backend = "gemini" /\ Len(results) < MaxRecv
    /\ closed = 0
    /\ Returned(geminiRecv(pos, buffer, chunkID))
    /\ UNCHANGED <<clientVars, backend, sent, wire, srcEnd, closed, procVars>>

Next == OpenAIRecv \/ DeepSeekRecv \/ AnthropicRecv \/ GeminiRecv

Spec == Init /\ [][Next]_vars

\* ------------------------------------------------------------------ Process
\* The raw events sent on the streams that Process drives: for each backend
\* one event of every outcome Recv has (a fragment with text, a fragment
\* without text or without choices, completion, an error, a skipped event).
ProcessEventsOf(b) ==
    CASE b = "anthropic" ->
            {Raw(<<>>, <<TxtDeltaA>>), Raw(<<"message_stop">>, <<TxtMsgStop>>),
             Raw(<<>>, <<TxtPing>>), Raw(<<>>, <<BadJSON>>), Raw(<<>>, <<DONE>>)}
      [] b = "gemini" ->
            {Raw(<<>>, <<TxtCandHel>>), Raw(<<>>, <<TxtCandFin>>),
             Raw(<<>>, <<TxtCandNone>>), Raw(<<>>, <<BadJSON>>), Raw(<<>>, <<DONE>>)}
      [] OTHER ->
            {Raw(<<>>, <<TxtHel>>), Raw(<<>>, <<TxtRole>>), Raw(<<>>, <<TxtNoChoices>>),
             Raw(<<>>, <<DONE>>), Raw(<<>>, <<BadJSON>>)}

\* api.DefaultStreamOptions
DefaultStreamOptions ==
    [isNil |-> FALSE, OnChunk |-> FALSE, OnText |-> FALSE,
     OnComplete |-> FALSE, namesAutoClose |-> TRUE, AutoClose |-> TRUE]

\* The value of a literal &StreamOptions{...}: each callback set or nil, and
\* AutoClose as the literal gives it, or Go's zero value false when the
\* literal does not name the field.  namesAutoClose keeps whether the
\* literal names AutoClose; nothing in the program reads it.
StreamOptions(onChunk, onText, onComplete, names, autoClose) ==
    [isNil |-> FALSE, OnChunk |-> onChunk, OnText |-> onText,
     OnComplete |-> onComplete, namesAutoClose |-> names,
     AutoClose |-> IF names THEN autoClose ELSE FALSE]

\* The options a caller may pass to Process: nil, or a StreamOptions literal.
CallerOptions ==
    {NoOptions} \cup
    {StreamOptions(onChunk, onText, onComplete, names, autoClose) :
        onChunk \in BOOLEAN, onText \in BOOLEAN, onComplete \in BOOLEAN,
        names \in BOOLEAN, autoClose \in BOOLEAN}

\* The error a callback of the caller returns when it fails.
CallbackError(name) == [kind |-> "callback", Type |-> "", Raw |-> name]

\* One call Process makes: which, the error passed to it (OnComplete) or
\* returned by it (the others), and the text passed to OnText.
Call(op, err, text) == [op |-> op, err |-> err, text |-> text]

InitProcess ==
    /\ backend \in Backends
    /\ sent \in SeqsUpTo(ProcessEventsOf(backend), MaxProcEvents)
    /\ wire = RenderAll(sent)
    /\ srcEnd \in {"EOF", "reset"}
    /\ pos = 0
    /\ buffer = <<>>
    /\ chunkID = 0
    /\ closed = 0
    /\ results = <<>>
    /\ opts \in CallerOptions
    /\ pc = "start"
    /\ cur = NoChunk
    /\ perr = NoError
    /\ calls = <<>>
    /\ fullContent = <<>>
    /\ IdleClient

\* stream.Recv() through the api.ResponseStream interface
StreamRecv(p, buf, id) ==
    CASE backend = "openai" -> openaiRecv(p, buf, id)
      [] backend = "deepseek" -> deepseekRecv(p, buf, id)
      [] backend = "anthropic" -> anthropicRecv(p, buf, id)
      [] backend = "gemini" -> geminiRecv(p, buf, id)

\* Process, entry: nil options are replaced by the defaults.
ProcStart ==
    /\ pc = "start"
    /\ opts' = IF opts.isNil THEN DefaultStreamOptions ELSE opts
    /\ pc' = "recv"
    /\ UNCHANGED <<clientVars, fullContent, backend, sent, wire, srcEnd, closed, streamVars, cur, perr, calls>>

\* Process, the two tests of err after chunk, err := stream.Recv(), r being
\* what Recv returned.  perr is what goes to OnComplete and is returned.
Received(r) ==
    /\ calls' = Append(calls, Call("Recv", r.err, <<>>))
    /\ IF r.err = EOF
       THEN perr' = NoError /\ pc' = "complete" /\ cur' = cur
       ELSE IF r.err # NoError
       THEN perr' = r.err /\ pc' = "complete" /\ cur' = cur
       ELSE perr' = perr /\ pc' = "onchunk" /\ cur' = r.chunk[1]

\* Process, top of the loop: chunk, err := stream.Recv()
ProcRecv ==
    /\ pc = "recv"
    /\ Returned(StreamRecv(pos, buffer, chunkID))
    /\ Received(StreamRecv(pos, buffer, chunkID))
    /\ UNCHANGED <<clientVars, fullContent, backend, sent, wire, srcEnd, closed, opts>>

\* Mutant of ProcOnChunk: the branch for a failed OnChunk returns the error
\* without the OnComplete call.
ProcOnChunkNoComplete ==
    /\ pc = "onchunk"
    /\ IF opts.OnChunk
       THEN \E e \in {NoError, CallbackError("OnChunk")} :
               /\ calls' = Append(calls, Call("OnChunk", e, <<>>))
               /\ IF e # NoError
                  THEN perr' = e /\ pc' = "defer"
                  ELSE perr' = perr /\ pc' = "ontext"
       ELSE /\ calls' = calls
            /\ perr' = perr
            /\ pc' = "ontext"
    /\ UNCHANGED <<clientVars, fullContent, backend, sent, wire, srcEnd, closed, streamVars, opts, cur>>

\* Mutant of ProcOnChunk: a failed OnChunk is noted, and the iteration goes
\* on to OnText as after a successful one.
ProcOnChunkNotFatal ==
    /\ pc = "onchunk"
    /\ IF opts.OnChunk
       THEN \E e \in {NoError, CallbackError("OnChunk")} :
               /\ calls' = Append(calls, Call("OnChunk", e, <<>>))
               /\ perr' = IF e # NoError THEN e ELSE perr
               /\ pc' = "ontext"
       ELSE /\ calls' = calls
            /\ perr' = perr
            /\ pc' = "ontext"
    /\ UNCHANGED <<clientVars, fullContent, backend, sent, wire, srcEnd, closed, streamVars, opts, cur>>

\* Process: the OnChunk callback, which returns nil or an error.
ProcOnChunk ==
    /\ pc = "onchunk"
    /\ IF opts.OnChunk
       THEN \E e \in {NoError, CallbackError("OnChunk")} :
               /\ calls' = Append(calls, Call("OnChunk", e, <<>>))
               /\ IF e # NoError
                  THEN perr' = e /\ pc' = "complete"
                  ELSE perr' = perr /\ pc' = "ontext"
       ELSE /\ calls' = calls
            /\ perr' = perr
            /\ pc' = "ontext"
    /\ UNCHANGED <<clientVars, fullContent, backend, sent, wire, srcEnd, closed, streamVars, opts, cur>>

\* Mutant of ProcOnText: the text is passed on without the test that it is
\* not empty.
ProcOnTextPassesEmpty ==
    /\ pc = "ontext"
    /\ IF opts.OnText /\ Len(cur.Choices) > 0
       THEN \E e \in {NoError, CallbackError("OnText")} :
               /\ calls' = Append(calls, Call("OnText", e, cur.Choices[1].Delta.Content))
               /\ IF e # NoError
                  THEN perr' = e /\ pc' = "complete"
                  ELSE perr' = perr /\ pc' = "recv"
       ELSE /\ calls' = calls
            /\ perr' = perr
            /\ pc' = "recv"
    /\ UNCHANGED <<clientVars, fullContent, backend, sent, wire, srcEnd, closed, streamVars, opts, cur>>

\* Process: the OnText callback with the first choice's text.
ProcOnText ==
    /\ pc = "ontext"
    /\ IF opts.OnText /\ Len(cur.Choices) > 0 /\ cur.Choices[1].Delta.Content # <<>>
       THEN \E e \in {NoError, CallbackError("OnText")} :
               /\ calls' = Append(calls, Call("OnText", e, cur.Choices[1].Delta.Content))
               /\ IF e # NoError
                  THEN perr' = e /\ pc' = "complete"
                  ELSE perr' = perr /\ pc' = "recv"
       ELSE /\ calls' = calls
            /\ perr' = perr
            /\ pc' = "recv"
    /\ UNCHANGED <<clientVars, fullContent, backend, sent, wire, srcEnd, closed, streamVars, opts, cur>>

\* Mutant of ProcComplete: the stream is closed first and OnComplete is
\* called afterwards.
ProcCompleteAfterClose ==
    /\ pc = "complete"
    /\ calls' = LET closing == IF opts.AutoClose
                               THEN Append(calls, Call("Close", NoError, <<>>))
                               ELSE calls
                IN  IF opts.OnComplete THEN Append(closing, Call("OnComplete", perr, <<>>))
                    ELSE closing
    /\ closed' = IF opts.AutoClose THEN closed + 1 ELSE closed
    /\ pc' = "returned"
    /\ UNCHANGED <<clientVars, fullContent, backend, sent, wire, srcEnd, streamVars, opts, cur, perr>>

\* Process: the OnComplete call that precedes each return statement.
ProcComplete ==
    /\ pc = "complete"
    /\ calls' = IF opts.OnComplete THEN Append(calls, Call("OnComplete", perr, <<>>))
                ELSE calls
    /\ pc' = "defer"
    /\ UNCHANGED <<clientVars, fullContent, backend, sent, wire, srcEnd, closed, streamVars, opts, cur, perr>>

\* Mutant of ProcDefer: the deferred function closes the stream without
\* testing options.AutoClose.
ProcDeferUnconditional ==
    /\ pc = "defer"
    /\ closed' = closed + 1 /\ calls' = Append(calls, Call("Close", NoError, <<>>))
    /\ pc' = "returned"
    /\ UNCHANGED <<clientVars, fullContent, backend, sent, wire, srcEnd, streamVars, opts, cur, perr>>

\* Process: the deferred function, run as Process returns perr.
ProcDefer ==
    /\ pc = "defer"
    /\ IF opts.AutoClose
       THEN closed' = closed + 1 /\ calls' = Append(calls, Call("Close", NoError, <<>>))
       ELSE closed' = closed /\ calls' = calls
    /\ pc' = "returned"
    /\ UNCHANGED <<clientVars, fullContent, backend, sent, wire, srcEnd, streamVars, opts, cur, perr>>

NextProcess == ProcStart \/ ProcRecv \/ ProcOnChunk \/ ProcOnText \/ ProcComplete \/ ProcDefer

SpecProcess == InitProcess /\ [][NextProcess]_vars

\* ------------------------------------------------------------------ Recv, one raw event at a time
\* Recv passes over a raw event by calling itself: `return s.Recv()`.  The
\* raw events each backend's Recv passes over.
RecvSkips(b, event) ==
    \/ event.Data = <<>>
    \/ /\ b = "anthropic"
       /\ LET streamResp == Unmarshal(ParseSSEData(event.Data))
              v == streamResp.v
          IN  /\ streamResp.ok
              /\ CASE v.type = <<"message_stop">> -> FALSE
                    [] v.type = <<"content_block_delta">> ->
                          ~v.hasDelta \/ v.delta.type # <<"text">>
                    [] v.type = <<"message_delta">> -> v.message.stop_reason = <<>>
                    [] OTHER -> TRUE
    \/ /\ b = "gemini"
       /\ LET streamResp == Unmarshal(ParseSSEData(event.Data))
          IN  /\ streamResp.ok
              /\ \/ Len(streamResp.v.candidates) = 0
                 \/ Len(geminiChoices(streamResp.v.candidates)) = 0

\* What Recv returns for a raw event rd.event that it does not pass over.
RecvOn(b, rd, id) ==
    LET streamResp == Unmarshal(ParseSSEData(rd.event.Data))
        v == streamResp.v
    IN  IF b \in {"openai", "deepseek"} /\ rd.event.Data = <<DONE>>
        THEN RecvResult(<<>>, EOF, rd, id)
        ELSE IF ~streamResp.ok
        THEN RecvResult(<<>>, NewError(ErrorTypeServer, "json"), rd, id)
        ELSE CASE b = "anthropic" ->
                    IF v.type = <<"content_block_delta">>
                    THEN RecvResult(
                           <<ResponseChunk(<<>>, ObjectChunk,
                               <<ChunkChoice(v.index, RoleAssistant, v.delta.text, <<>>)>>)>>,
                           NoError, rd, id)
                    ELSE RecvResult(<<>>, EOF, rd, id)
               [] b = "gemini" ->
                    RecvResult(
                      <<ResponseChunk(<<"chunk-", id + 1>>, ObjectChunk,
                                      geminiChoices(v.candidates))>>,
                      NoError, rd, id + 1)
               [] OTHER ->
                    RecvResult(<<ResponseChunk(<<>>, <<>>, deltaChoices(v.choices))>>,
                               NoError, rd, id)

\* ReadEvent, one round of its loop, rd being what ReadBytes returned and
\* buf the buffer.  The body has ended with lines left in the buffer.
Flushes(rd, buf) == rd.err = "EOF" /\ Len(buf) > 0 /\ buf # <<NL>>

\* The buffer after the round's append: the line read, or at the body's end
\* the "\n" that closes the lines left.
Appended(rd, buf) ==
    IF rd.err = "nil" THEN buf \o rd.line
    ELSE IF Flushes(rd, buf) THEN buf \o <<NL>>
    ELSE buf

\* The line read ends a group of lines: b, the buffer with the line, ends
\* with the delimiter.
Completes(rd, b) ==
    /\ rd.err = "nil"
    /\ \/ HasSuffix(b, delimiter)
       \/ Len(rd.line) = 1 /\ rd.line[1] = NL /\ Len(b) > 1 /\ b[Len(b) - 1] = NL

\* The loop in ReadEvent goes round, or Recv calls itself and with it
\* ReadEvent: the next ReadBytes finds position p and buffer buf.
ReadsOn(p, buf) ==
    /\ pos' = p
    /\ buffer' = buf
    /\ UNCHANGED <<chunkID, results, pc, cur, perr, calls>>

\* Recv returns r to Process.
RecvReturns(r) == Returned(r) /\ Received(r)

\* Mutant of RecvPass: the call Recv makes to itself finds the reader
\* where the call before found it.
RecvPassRereads ==
    /\ pc = "recv"
    /\ \E rd \in {ReadBytes(pos)} : \E b \in {Appended(rd, buffer)} :
          IF ~Flushes(rd, buffer) /\ ~Completes(rd, b)
          THEN IF rd.err = "nil"
               THEN ReadsOn(rd.pos, b)
               ELSE \E r \in {ReadResult(FALSE, ZeroEvent, rd.err, rd.pos, buffer)} :
                       RecvReturns(RecvResult(<<>>, readError(r), r, chunkID))
          ELSE \E event \in {processBuffer(b)} :
               IF event.Data = <<>> /\ event.Event = <<>>
               THEN IF rd.err = "nil"
                    THEN ReadsOn(rd.pos, <<>>)
                    ELSE \E r \in {ReadResult(FALSE, ZeroEvent, rd.err, rd.pos, <<>>)} :
                            RecvReturns(RecvResult(<<>>, readError(r), r, chunkID))
               ELSE IF RecvSkips(backend, event)
               THEN ReadsOn(pos, buffer)
               ELSE \E r \in {RecvOn(backend, ReadResult(TRUE, event, "nil", rd.pos, <<>>),
                                     chunkID)} :
                       RecvReturns(r)
    /\ UNCHANGED <<clientVars, fullContent, backend, sent, wire, srcEnd, closed, opts>>

\* One round of the loop in ReadEvent within a Recv call: ReadBytes, the
\* append, and when the lines in the buffer are complete processBuffer.
\* Either the loop goes round again; or ReadEvent returns an event that Recv
\* passes over by calling itself, which calls ReadEvent anew; or Recv
\* returns to Process, with the error of the read or with what it makes of
\* the event.
RecvPass ==
    /\ pc = "recv"
    /\ \E rd \in {ReadBytes(pos)} : \E b \in {Appended(rd, buffer)} :
          IF ~Flushes(rd, buffer) /\ ~Completes(rd, b)
          THEN IF rd.err = "nil"
               THEN ReadsOn(rd.pos, b)
               ELSE \E r \in {ReadResult(FALSE, ZeroEvent, rd.err, rd.pos, buffer)} :
                       RecvReturns(RecvResult(<<>>, readError(r), r, chunkID))
          ELSE \E event \in {processBuffer(b)} :
               IF event.Data = <<>> /\ event.Event = <<>>
               THEN IF rd.err = "nil"
                    THEN ReadsOn(rd.pos, <<>>)
                    ELSE \E r \in {ReadResult(FALSE, ZeroEvent, rd.err, rd.pos, <<>>)} :
                            RecvReturns(RecvResult(<<>>, readError(r), r, chunkID))
               ELSE IF RecvSkips(backend, event)
               THEN ReadsOn(rd.pos, <<>>)
               ELSE \E r \in {RecvOn(backend, ReadResult(TRUE, event, "nil", rd.pos, <<>>),
                                     chunkID)} :
                       RecvReturns(r)
    /\ UNCHANGED <<clientVars, fullContent, backend, sent, wire, srcEnd, closed, opts>>

NextTermination ==
    ProcStart \/ RecvPass \/ ProcOnChunk \/ ProcOnText \/ ProcComplete \/ ProcDefer

\* The options of the calls followed to their end: every callback set, each
\* of which returns nil or an error, and AutoClose.
ReturningOptions == {StreamOptions(TRUE, TRUE, TRUE, TRUE, TRUE)}

InitTermination ==
    /\ backend \in Backends
    /\ sent \in SeqsUpTo(ProcessEventsOf(backend), MaxProcEvents)
    /\ wire = RenderAll(sent)
    /\ srcEnd \in {"EOF", "reset"}
    /\ pos = 0
    /\ buffer = <<>>
    /\ chunkID = 0
    /\ closed = 0
    /\ results = <<>>
    /\ opts \in ReturningOptions
    /\ pc = "start"
    /\ cur = NoChunk
    /\ perr = NoError
    /\ calls = <<>>
    /\ fullContent = <<>>
    /\ IdleClient

\* Process runs on one goroutine that is not held up: the body delivers its
\* bytes and its end, and each callback returns.
SpecTermination == InitTermination /\ [][NextTermination]_vars /\ WF_vars(NextTermination)

\* ------------------------------------------------------------------ CollectFullContent
\* The raw events sent on the streams whose text is collected: two fragments
\* with different texts, a fragment without text, completion, an error.
CollectEventsOf(b) ==
    CASE b = "anthropic" ->
            {Raw(<<>>, <<TxtDeltaA>>), Raw(<<>>, <<TxtDeltaB>>),
             Raw(<<"message_stop">>, <<TxtMsgStop>>), Raw(<<>>, <<TxtPing>>),
             Raw(<<>>, <<BadJSON>>)}
      [] b = "gemini" ->
            {Raw(<<>>, <<TxtCandHel>>), Raw(<<>>, <<TxtCandLo>>),
             Raw(<<>>, <<TxtCandFin>>), Raw(<<>>, <<BadJSON>>)}
      [] OTHER ->
            {Raw(<<>>, <<TxtHel>>), Raw(<<>>, <<TxtLo>>), Raw(<<>>, <<TxtRole>>),
             Raw(<<>>, <<TxtNoChoices>>), Raw(<<>>, <<DONE>>), Raw(<<>>, <<BadJSON>>)}

InitCollect ==
    /\ backend \in Backends
    /\ sent \in SeqsUpTo(CollectEventsOf(backend), MaxCollectEvents)
    /\ wire = RenderAll(sent)
    /\ srcEnd \in {"EOF", "reset"}
    /\ pos = 0
    /\ buffer = <<>>
    /\ chunkID = 0
    /\ closed = 0
    /\ results = <<>>
    /\ opts = NoOptions
    /\ pc = "collect"
    /\ cur = NoChunk
    /\ perr = NoError
    /\ calls = <<>>
    /\ fullContent = <<>>
    /\ IdleClient

\* CollectFullContent, entry: fullContent is empty, and ProcessWithHandler
\* calls Process with the options literal it builds around the handler.
CollectStart ==
    /\ pc = "collect"
    /\ fullContent' = <<>>
    /\ opts' = StreamOptions(FALSE, TRUE, FALSE, TRUE, TRUE)
    /\ pc' = "recv"
    /\ UNCHANGED <<clientVars, backend, sent, wire, srcEnd, closed, streamVars, cur, perr, calls>>

\* Mutant of CollectOnText: the handler keeps the last text only.
CollectOnTextOverwrites ==
    /\ pc = "ontext"
    /\ IF opts.OnText /\ Len(cur.Choices) > 0 /\ cur.Choices[1].Delta.Content # <<>>
       THEN /\ fullContent' = cur.Choices[1].Delta.Content
            /\ calls' = Append(calls, Call("OnText", NoError, cur.Choices[1].Delta.Content))
       ELSE /\ fullContent' = fullContent
            /\ calls' = calls
    /\ pc' = "recv"
    /\ UNCHANGED <<clientVars, backend, sent, wire, srcEnd, closed, streamVars, opts, cur, perr>>

\* Process: the OnText callback when it is CollectFullContent's handler,
\* which appends the text to fullContent and returns nil.
CollectOnText ==
    /\ pc = "ontext"
    /\ IF opts.OnText /\ Len(cur.Choices) > 0 /\ cur.Choices[1].Delta.Content # <<>>
       THEN /\ fullContent' = fullContent \o cur.Choices[1].Delta.Content
            /\ calls' = Append(calls, Call("OnText", NoError, cur.Choices[1].Delta.Content))
       ELSE /\ fullContent' = fullContent
            /\ calls' = calls
    /\ pc' = "recv"
    /\ UNCHANGED <<clientVars, backend, sent, wire, srcEnd, closed, streamVars, opts, cur, perr>>

NextCollect ==
    CollectStart \/ ProcRecv \/ ProcOnChunk \/ CollectOnText \/ ProcComplete \/ ProcDefer

SpecCollect == InitCollect /\ [][NextCollect]_vars

\* ------------------------------------------------------------------ ProcessWithHandler
\* The two functions built on ProcessWithHandler, CollectFullContent and
\* StreamToWriter, on the same streams.  The options carry, besides the
\* fields of the literal, which closure the OnText field holds.
Handlers == {"CollectFullContent", "StreamToWriter"}

\* The error writer.Write returns when it fails.
WriterError == [kind |-> "writer", Type |-> "", Raw |-> "Write"]

InitHandler ==
    /\ backend \in Backends
    /\ sent \in SeqsUpTo(CollectEventsOf(backend), MaxCollectEvents)
    /\ wire = RenderAll(sent)
    /\ srcEnd \in {"EOF", "reset"}
    /\ pos = 0
    /\ buffer = <<>>
    /\ chunkID = 0
    /\ closed = 0
    /\ results = <<>>
    /\ opts = NoOptions
    /\ pc = "handler"
    /\ cur = NoChunk
    /\ perr = NoError
    /\ calls = <<>>
    /\ fullContent = <<>>
    /\ IdleClient

\* ProcessWithHandler: the options literal around the handler h.
HandlerOptions(h) == StreamOptions(FALSE, TRUE, FALSE, TRUE, TRUE) @@ [handler |-> h]

\* CollectFullContent, entry.
HandlerCollectStart ==
    /\ pc = "handler"
    /\ fullContent' = <<>>
    /\ opts' = HandlerOptions("CollectFullContent")
    /\ pc' = "recv"
    /\ UNCHANGED <<clientVars, backend, sent, wire, srcEnd, closed, streamVars, cur, perr, calls>>

\* StreamToWriter, entry.
WriterStart ==
    /\ pc = "handler"
    /\ opts' = HandlerOptions("StreamToWriter")
    /\ pc' = "recv"
    /\ UNCHANGED <<clientVars, fullContent, backend, sent, wire, srcEnd, closed, streamVars, cur, perr, calls>>

\* Process: the OnText callback when it is CollectFullContent's handler.
HandlerCollectOnText ==
    /\ pc = "ontext"
    /\ opts.handler = "CollectFullContent"
    /\ CollectOnText

\* Mutant of WriterOnText: the handler drops the error of writer.Write and
\* returns nil.
WriterOnTextIgnoresError ==
    /\ pc = "ontext"
    /\ opts.handler = "StreamToWriter"
    /\ IF opts.OnText /\ Len(cur.Choices) > 0 /\ cur.Choices[1].Delta.Content # <<>>
       THEN \E e \in {NoError, WriterError} :
               calls' = calls \o <<Call("Write", e, cur.Choices[1].Delta.Content),
                                   Call("OnText", NoError, cur.Choices[1].Delta.Content)>>
       ELSE calls' = calls
    /\ perr' = perr
    /\ pc' = "recv"
    /\ UNCHANGED <<clientVars, fullContent, backend, sent, wire, srcEnd, closed, streamVars, opts, cur>>

\* Process: the OnText callback when it is StreamToWriter's handler, which
\* calls writer.Write with the text and returns the error Write returned.
WriterOnText ==
    /\ pc = "ontext"
    /\ opts.handler = "StreamToWriter"
    /\ IF opts.OnText /\ Len(cur.Choices) > 0 /\ cur.Choices[1].Delta.Content # <<>>
       THEN \E e \in {NoError, WriterError} :
               /\ calls' = calls \o <<Call("Write", e, cur.Choices[1].Delta.Content),
                                       Call("OnText", e, cur.Choices[1].Delta.Content)>>
               /\ IF e # NoError
                  THEN perr' = e /\ pc' = "complete"
                  ELSE perr' = perr /\ pc' = "recv"
       ELSE /\ calls' = calls
            /\ perr' = perr
            /\ pc' = "recv"
    /\ UNCHANGED <<clientVars, fullContent, backend, sent, wire, srcEnd, closed, streamVars, opts, cur>>

NextHandler ==
    \/ HandlerCollectStart \/ WriterStart
    \/ ProcRecv \/ ProcOnChunk
    \/ HandlerCollectOnText \/ WriterOnText
    \/ ProcComplete \/ ProcDefer

SpecHandler == InitHandler /\ [][NextHandler]_vars

\* ------------------------------------------------------------------ a consumer that closes
\* What rawReader.Close() may return on its n-th call.  The body is the
\* io.ReadCloser the HTTP client's transport supplies; io.Closer leaves the
\* behaviour of a Close after the first undefined, so a body may answer it
\* with nil or with an error.
BodyClose(n) == IF n = 1 THEN {"nil", "close failed"} ELSE {"nil", "already closed"}

\* Close of every backend stream: return s.rawReader.Close(), e being what
\* the body returned.
streamClose(e) ==
    IF e = "nil" THEN NoError ELSE [kind |-> "transport", Type |-> "", Raw |-> e]

InitClose ==
    /\ InitStream(MaxCloseEvents)
    /\ opts = NoOptions
    /\ pc = "direct"
    /\ cur = NoChunk
    /\ perr = NoError
    /\ calls = <<>>
    /\ fullContent = <<>>
    /\ IdleClient

\* stream.Close() called by the consumer.
StreamClose ==
    /\ pc = "direct" /\ closed < MaxClose
    /\ \E e \in BodyClose(closed + 1) :
          calls' = Append(calls, Call("Close", streamClose(e), <<>>))
    /\ closed' = closed + 1
    /\ UNCHANGED <<clientVars, backend, sent, wire, srcEnd, streamVars, opts, pc, cur, perr, fullContent>>

NextClose == Next \/ StreamClose

SpecClose == InitClose /\ [][NextClose]_vars

\* ------------------------------------------------------------------ the event reader alone
\* The lines a body may hold, each without its "\n": a blank line, data
\* lines (with a value, with an empty value, with a value that starts with a
\* space and holds a colon), a comment, an event line, an id line, a retry
\* line, a line with a field name the reader does not know.
ReaderLines ==
    {<<>>,
     <<"data", COLON, SP, "foo">>, <<"data", COLON, SP, "bar">>,
     <<"data", COLON, SP>>,
     <<"data", COLON, SP, SP, "a", COLON, "b">>,
     <<COLON, "c">>,
     <<"event", COLON, SP, "ping">>,
     <<"id", COLON, SP, "7">>,
     <<"retry", COLON, SP, "5">>,
     <<"foo", COLON, SP, "x">>}

\* The bytes of a sequence of lines, each ended by "\n".
RECURSIVE RenderLines(_)
RenderLines(lines) ==
    IF lines = <<>> THEN <<>>
    ELSE Head(lines) \o <<NL>> \o RenderLines(Tail(lines))

\* NewSSEReader(body): the body holds the lines of `sent`; its last line may
\* lack the "\n" when the body stops in the middle of it.
InitReader ==
    /\ backend = "none"
    /\ sent \in SeqsUpTo(ReaderLines, MaxLines)
    /\ \/ wire = RenderLines(sent)
       \/ /\ sent # <<>> /\ sent[Len(sent)] # <<>>
          /\ wire = SubSeq(RenderLines(sent), 1, Len(RenderLines(sent)) - 1)
    /\ srcEnd \in {"EOF", "reset"}
    /\ pos = 0
    /\ buffer = <<>>
    /\ chunkID = 0
    /\ closed = 0
    /\ results = <<>>
    /\ opts = NoOptions
    /\ pc = "reader"
    /\ cur = NoChunk
    /\ perr = NoError
    /\ calls = <<>>
    /\ fullContent = <<>>
    /\ IdleClient

\* The reader takes the state rd leaves it in, and the caller sees what
\* ReadEvent returned: (event, nil) when rd.ok, else (nil, rd.err).
ReadReturned(rd) ==
    /\ pos' = rd.pos
    /\ buffer' = rd.buffer
    /\ results' = Append(results, [ok |-> rd.ok, event |-> rd.event, err |-> rd.err])

\* r.ReadEvent() called by the owner of the reader.
ReaderReadEvent ==
    /\ pc = "reader" /\ Len(results) < MaxReads
    /\ ReadReturned(ReadEvent(pos, buffer))
    /\ UNCHANGED <<clientVars, backend, sent, wire, srcEnd, chunkID, closed, procVars>>

NextReader == ReaderReadEvent

SpecReader == InitReader /\ [][NextReader]_vars

\* The same reader on bodies made of the lines that set a field of the
\* event, and the blank line: long bodies of these are within reach.
FieldLines ==
    {<<>>, <<"data", COLON, SP, "foo">>, <<"data", COLON, SP, "bar">>,
     <<"event", COLON, SP, "ping">>, <<"id", COLON, SP, "7">>,
     <<"retry", COLON, SP, "5">>}

InitReaderFields ==
    /\ backend = "none"
    /\ sent \in SeqsUpTo(FieldLines, MaxLines)
    /\ \/ wire = RenderLines(sent)
       \/ /\ sent # <<>> /\ sent[Len(sent)] # <<>>
          /\ wire = SubSeq(RenderLines(sent), 1, Len(RenderLines(sent)) - 1)
    /\ srcEnd \in {"EOF", "reset"}
    /\ pos = 0
    /\ buffer = <<>>
    /\ chunkID = 0
    /\ closed = 0
    /\ results = <<>>
    /\ opts = NoOptions
    /\ pc = "reader"
    /\ cur = NoChunk
    /\ perr = NoError
    /\ calls = <<>>
    /\ fullContent = <<>>
    /\ IdleClient

SpecReaderFields == InitReaderFields /\ [][NextReader]_vars

\* ------------------------------------------------------------------ a call on a provider client
\* Client.Complete and Client.CompleteStream of the four providers.  The four
\* bodies are the same code up to the provider's error mapping and request
\* validation; the call is split where it blocks, on httpClient.Do.
Methods == {"Complete", "CompleteStream"}
RequestKinds == {"nil", "no model", "no messages", "unknown model", "valid"}
BaseURLs == {"ok", "malformed"}
Statuses == {200, 429, 500}

\* A response body: whether it is JSON, and the error.type and error.code it
\* carries (zero values when absent).
Body(json, type, code) == [json |-> json, Type |-> type, Code |-> code]
ResponseBodies ==
    { Body(FALSE, "", 0),
      Body(TRUE, "", 0),
      Body(TRUE, "rate_limit_error", 429),
      Body(TRUE, "permission_error", 403),
      Body(TRUE, "server_error", 500) }

\* validateRequest: nil for a request that passes.
validateRequest(b, kind) ==
    IF kind \in {"nil", "no model", "no messages"}
    THEN NewError(ErrorTypeInvalidRequest, "validateRequest")
    ELSE IF b = "anthropic" /\ kind = "unknown model"
    THEN NewError(ErrorTypeInvalidRequest, "validateRequest")
    ELSE NoError

\* mapOpenAIError, mapDeepSeekError, mapAnthropicError, mapGeminiError: the
\* error type for a decoded error body.
mapError(b, body) ==
    IF b = "gemini"
    THEN CASE body.Code = 400 -> ErrorTypeInvalidRequest
           [] body.Code \in {401, 403} -> ErrorTypeAuthentication
           [] body.Code = 429 -> ErrorTypeRateLimit
           [] body.Code \in {500, 502, 503} -> ErrorTypeServer
           [] OTHER -> ErrorTypeUnknown
    ELSE CASE body.Type = "invalid_request_error" -> ErrorTypeInvalidRequest
           [] body.Type = "authentication_error" -> ErrorTypeAuthentication
           [] body.Type = "permission_error" /\ b = "anthropic" -> ErrorTypeAuthentication
           [] body.Type = "rate_limit_error" -> ErrorTypeRateLimit
           [] body.Type = "server_error" -> ErrorTypeServer
           [] OTHER -> ErrorTypeUnknown

\* The error returned for a response whose status is not 200: the body read
\* as far as it could be (readOK), decoded, and mapped.
statusError(b, body, readOK) ==
    IF readOK /\ body.json
    THEN NewError(mapError(b, body), "status")
    ELSE NewError(ErrorTypeServer, "status")

Return(value, err) == [value |-> value, err |-> err]

InitClient ==
    /\ backend \in Backends
    /\ sent = <<>>
    /\ wire = <<>>
    /\ srcEnd = "EOF"
    /\ pos = 0
    /\ buffer = <<>>
    /\ chunkID = 0
    /\ closed = 0
    /\ results = <<>>
    /\ opts = NoOptions
    /\ pc = "client"
    /\ cur = NoChunk
    /\ perr = NoError
    /\ calls = <<>>
    /\ fullContent = <<>>
    /\ request \in [op : Methods, kind : RequestKinds, Stream : BOOLEAN]
    /\ reqCopy = NoRequest
    /\ client \in [maxRetries : 0..MaxMaxRetries, baseURL : BaseURLs]
    /\ attempts = 0
    /\ resp = NoResponse
    /\ retryCount = 0
    /\ lastErr = NoError
    /\ ret = NoReturn

\* CompleteStream's copy of the request: reqCopy := *request, and on all
\* providers but Gemini reqCopy.Stream = true.
StreamCopy(b, req) == IF b = "gemini" THEN req ELSE [req EXCEPT !.Stream = TRUE]

\* Mutant of ClientBuildRequest: CompleteStream sets the Stream flag on the
\* request it was given and sends that.
ClientBuildRequestSetsStream ==
    /\ pc = "client"
    /\ IF validateRequest(backend, request.kind) # NoError
       THEN /\ ret' = Return("nil", validateRequest(backend, request.kind))
            /\ pc' = "returned"
            /\ UNCHANGED <<request, reqCopy>>
       ELSE /\ request' = IF request.op = "CompleteStream"
                          THEN StreamCopy(backend, request) ELSE request
            /\ reqCopy' = IF request.op = "CompleteStream"
                          THEN StreamCopy(backend, request) ELSE reqCopy
            /\ IF client.baseURL = "malformed"
               THEN /\ ret' = Return("nil", NewError(ErrorTypeConnection, "NewRequest"))
                    /\ pc' = "returned"
               ELSE /\ ret' = ret
                    /\ pc' = "do"
    /\ UNCHANGED <<client, attempts, resp, retryCount, lastErr>>
    /\ UNCHANGED <<backend, sent, wire, srcEnd, closed, streamVars,
                   opts, cur, perr, calls, fullContent>>

\* Both methods, up to the request being built: validateRequest, in
\* CompleteStream the copy of the request, then
\* http.NewRequestWithContext on baseURL.
ClientBuildRequest ==
    /\ pc = "client"
    /\ IF validateRequest(backend, request.kind) # NoError
       THEN /\ ret' = Return("nil", validateRequest(backend, request.kind))
            /\ pc' = "returned"
            /\ reqCopy' = reqCopy
       ELSE /\ reqCopy' = IF request.op = "CompleteStream"
                          THEN StreamCopy(backend, request) ELSE reqCopy
            /\ IF client.baseURL = "malformed"
               THEN /\ ret' = Return("nil", NewError(ErrorTypeConnection, "NewRequest"))
                    /\ pc' = "returned"
               ELSE /\ ret' = ret
                    /\ pc' = "do"
    /\ UNCHANGED <<request, client, attempts, resp, retryCount, lastErr>>
    /\ UNCHANGED <<backend, sent, wire, srcEnd, closed, streamVars,
                   opts, cur, perr, calls, fullContent>>

\* Both methods: resp, err := c.httpClient.Do(req), once.
ClientDo ==
    /\ pc = "do"
    /\ attempts' = attempts + 1
    /\ \/ /\ ret' = Return("nil", NewError(ErrorTypeConnection, "Do"))
          /\ resp' = resp
          /\ pc' = "returned"
       \/ /\ \E st \in Statuses, body \in ResponseBodies :
                resp' = [status |-> st, body |-> body]
          /\ ret' = ret
          /\ pc' = "response"
    /\ UNCHANGED <<request, reqCopy, client, retryCount, lastErr>>
    /\ UNCHANGED <<backend, sent, wire, srcEnd, closed, streamVars,
                   opts, cur, perr, calls, fullContent>>

\* CompleteStream from the status check: without the deferred Close.
CompleteStreamReturnKeepsBody ==
    /\ pc = "response"
    /\ request.op = "CompleteStream"
    /\ IF resp.status # 200
       THEN /\ \E readOK \in BOOLEAN :
                  ret' = Return("nil", statusError(backend, resp.body, readOK))
            /\ closed' = closed
       ELSE /\ ret' = Return("stream", NoError)
            /\ closed' = closed
    /\ pc' = "returned"
    /\ UNCHANGED <<request, reqCopy, client, attempts, resp, retryCount, lastErr>>
    /\ UNCHANGED <<backend, sent, wire, srcEnd, streamVars,
                   opts, cur, perr, calls, fullContent>>

\* CompleteStream from the status check to its return.  A status other than
\* 200: the body is read, the error returned, and the deferred
\* resp.Body.Close runs.  200: the stream over resp.Body is returned.
CompleteStreamReturn ==
    /\ pc = "response"
    /\ request.op = "CompleteStream"
    /\ IF resp.status # 200
       THEN /\ \E readOK \in BOOLEAN :
                  ret' = Return("nil", statusError(backend, resp.body, readOK))
            /\ closed' = closed + 1
       ELSE /\ ret' = Return("stream", NoError)
            /\ closed' = closed
    /\ pc' = "returned"
    /\ UNCHANGED <<request, reqCopy, client, attempts, resp, retryCount, lastErr>>
    /\ UNCHANGED <<backend, sent, wire, srcEnd, streamVars,
                   opts, cur, perr, calls, fullContent>>

\* Complete from io.ReadAll to its return; resp.Body.Close is deferred on
\* every path.
CompleteReturn ==
    /\ pc = "response"
    /\ request.op = "Complete"
    /\ \E readOK \in BOOLEAN :
          ret' = IF ~readOK
                 THEN Return("nil", NewError(ErrorTypeServer, "ReadAll"))
                 ELSE IF resp.status # 200
                 THEN Return("nil", statusError(backend, resp.body, TRUE))
                 ELSE IF ~resp.body.json
                 THEN Return("nil", NewError(ErrorTypeServer, "Unmarshal"))
                 ELSE Return("response", NoError)
    /\ closed' = closed + 1
    /\ pc' = "returned"
    /\ UNCHANGED <<request, reqCopy, client, attempts, resp, retryCount, lastErr>>
    /\ UNCHANGED <<backend, sent, wire, srcEnd, streamVars,
                   opts, cur, perr, calls, fullContent>>

NextClient ==
    \/ ClientBuildRequest
    \/ ClientDo
    \/ CompleteStreamReturn
    \/ CompleteReturn

SpecClient == InitClient /\ [][NextClient]_vars

\* ------------------------------------------------------------------ a canceled context
\* The stream's body belongs to a request made with the caller's context
\* (http.NewRequestWithContext).  The server has sent what it sent and is
\* silent, so a read past the last byte blocks; once the context is canceled
\* or its deadline passes, net/http fails that read with the context's error.
\* Bytes that arrived before stay readable.
CtxErrors == {"context canceled", "context deadline exceeded"}

InitCancel ==
    /\ backend \in Backends
    /\ sent \in SeqsUpTo(ProcessEventsOf(backend), MaxCancelEvents)
    /\ wire = RenderAll(sent)
    /\ srcEnd = "blocked"
    /\ pos = 0
    /\ buffer = <<>>
    /\ chunkID = 0
    /\ closed = 0
    /\ results = <<>>
    /\ opts = NoOptions
    /\ pc = "ctx"
    /\ cur = NoChunk
    /\ perr = NoError
    /\ calls = <<>>
    /\ fullContent = <<>>
    /\ IdleClient

\* A Recv call whose read would block stays in the call; any other returns r.
CtxReturned(r) ==
    IF srcEnd = "blocked" /\ r.read = <<>>
    THEN pc' = "blocked" /\ UNCHANGED streamVars
    ELSE pc' = "ctx" /\ Returned(r)

\* The consumer calls Recv.
CtxRecv ==
    /\ pc = "ctx" /\ Len(results) < MaxRecv
    /\ CtxReturned(StreamRecv(pos, buffer, chunkID))
    /\ UNCHANGED <<clientVars, backend, sent, wire, srcEnd, closed,
                   opts, cur, perr, calls, fullContent>>

\* The context is canceled or its deadline passes.
CtxDone ==
    /\ srcEnd = "blocked"
    /\ srcEnd' \in CtxErrors
    /\ UNCHANGED <<clientVars, backend, sent, wire, closed, streamVars, procVars>>

\* The blocked read fails with the context's error and Recv runs on to its
\* return.
CtxRecvWakes ==
    /\ pc = "blocked"
    /\ srcEnd \in CtxErrors
    /\ CtxReturned(StreamRecv(pos, buffer, chunkID))
    /\ UNCHANGED <<clientVars, backend, sent, wire, srcEnd, closed,
                   opts, cur, perr, calls, fullContent>>

NextCancel == CtxRecv \/ CtxDone \/ CtxRecvWakes

SpecCancel == InitCancel /\ [][NextCancel]_vars

\* ------------------------------------------------------------------ DoHTTPRequest
\* utils.DoHTTPRequest, which no provider client calls.  The body argument:
\* nil, a value json.Marshal encodes, or one it does not.
BodyKinds == {"nil", "json", "unmarshalable"}

\* api.NewError(errType, message, statusCode, rawErr)
NewStatusError(errType, statusCode, rawErr) ==
    [kind |-> "api.Error", Type |-> errType, Raw |-> rawErr, StatusCode |-> statusCode]

\* An error of the transport: what client.Do or io.ReadAll returned.
TransportError(op) == [kind |-> "transport", Type |-> "", Raw |-> op]

\* What DoHTTPRequest returns: ([]byte, int, error).
HTTPReturn(body, status, err) == [value |-> body, status |-> status, err |-> err]

InitHTTP ==
    /\ backend = "none"
    /\ sent = <<>>
    /\ wire = <<>>
    /\ srcEnd = "EOF"
    /\ pos = 0
    /\ buffer = <<>>
    /\ chunkID = 0
    /\ closed = 0
    /\ results = <<>>
    /\ opts = NoOptions
    /\ pc = "http"
    /\ cur = NoChunk
    /\ perr = NoError
    /\ calls = <<>>
    /\ fullContent = <<>>
    /\ request \in [op : {"DoHTTPRequest"}, kind : BodyKinds, Stream : {FALSE}]
    /\ reqCopy = NoRequest
    /\ client \in [maxRetries : 0..MaxMaxRetries, baseURL : BaseURLs]
    /\ attempts = 0
    /\ resp = NoResponse
    /\ retryCount = 0
    /\ lastErr = NoError
    /\ ret = NoReturn

\* DoHTTPRequest up to the loop: json.Marshal of the body, then
\* http.NewRequestWithContext.
HTTPBuildRequest ==
    /\ pc = "http"
    /\ IF request.kind = "unmarshalable"
       THEN /\ ret' = HTTPReturn("nil", 0, NewError(ErrorTypeInvalidRequest, "Marshal"))
            /\ pc' = "returned"
       ELSE IF client.baseURL = "malformed"
       THEN /\ ret' = HTTPReturn("nil", 0, NewError(ErrorTypeConnection, "NewRequest"))
            /\ pc' = "returned"
       ELSE /\ ret' = ret
            /\ pc' = "loop"
    /\ UNCHANGED <<request, reqCopy, client, attempts, resp, retryCount, lastErr>>
    /\ UNCHANGED <<backend, sent, wire, srcEnd, closed, streamVars,
                   opts, cur, perr, calls, fullContent>>

\* The loop's test and, before a retry, the select on ctx.Done() and the
\* delay; after the loop, the return of the last error.
HTTPLoop ==
    /\ pc = "loop"
    /\ IF retryCount <= client.maxRetries
       THEN IF retryCount > 0
            THEN \/ \E e \in CtxErrors :
                       /\ ret' = HTTPReturn("nil", 0, NewError(ErrorTypeTimeout, e))
                       /\ pc' = "returned"
                 \/ ret' = ret /\ pc' = "do"
            ELSE ret' = ret /\ pc' = "do"
       ELSE /\ ret' = IF lastErr # NoError
                      THEN IF lastErr.kind = "api.Error"
                           THEN HTTPReturn("nil", lastErr.StatusCode, lastErr)
                           ELSE HTTPReturn("nil", 0, NewError(ErrorTypeConnection, lastErr.Raw))
                      ELSE HTTPReturn("nil", 0, NewError(ErrorTypeUnknown, "nil"))
            /\ pc' = "returned"
    /\ UNCHANGED <<request, reqCopy, client, attempts, resp, retryCount, lastErr>>
    /\ UNCHANGED <<backend, sent, wire, srcEnd, closed, streamVars,
                   opts, cur, perr, calls, fullContent>>

\* resp, err = client.Do(req): an error, which is kept and ends the
\* iteration, or a response.
HTTPDo ==
    /\ pc = "do"
    /\ attempts' = attempts + 1
    /\ \/ /\ resp' = NoResponse
          /\ lastErr' = TransportError("Do")
          /\ retryCount' = retryCount + 1
          /\ pc' = "loop"
       \/ /\ \E st \in Statuses, body \in ResponseBodies :
                resp' = [status |-> st, body |-> body]
          /\ UNCHANGED <<lastErr, retryCount>>
          /\ pc' = "read"
    /\ UNCHANGED <<request, reqCopy, client, ret>>
    /\ UNCHANGED <<backend, sent, wire, srcEnd, closed, streamVars,
                   opts, cur, perr, calls, fullContent>>

\* Mutant of HTTPRead: a 5xx response ends the iteration whether or not
\* attempts remain.
HTTPReadAlwaysRetries ==
    /\ pc = "read"
    /\ \/ /\ lastErr' = TransportError("ReadAll")
          /\ retryCount' = retryCount + 1
          /\ ret' = ret
          /\ pc' = "loop"
       \/ IF resp.status >= 500
          THEN /\ lastErr' = NewStatusError(ErrorTypeServer, resp.status, "nil")
               /\ retryCount' = retryCount + 1
               /\ ret' = ret
               /\ pc' = "loop"
          ELSE /\ ret' = HTTPReturn(resp.body, resp.status, NoError)
               /\ pc' = "returned"
               /\ UNCHANGED <<lastErr, retryCount>>
    /\ UNCHANGED <<request, reqCopy, client, attempts, resp>>
    /\ UNCHANGED <<backend, sent, wire, srcEnd, closed, streamVars,
                   opts, cur, perr, calls, fullContent>>

\* From io.ReadAll(resp.Body) to the end of the iteration: a read error is
\* kept and ends the iteration; so does a 5xx status while attempts remain;
\* otherwise the body and the status are returned.
HTTPRead ==
    /\ pc = "read"
    /\ \/ /\ lastErr' = TransportError("ReadAll")
          /\ retryCount' = retryCount + 1
          /\ ret' = ret
          /\ pc' = "loop"
       \/ IF resp.status >= 500 /\ retryCount < client.maxRetries
          THEN /\ lastErr' = NewStatusError(ErrorTypeServer, resp.status, "nil")
               /\ retryCount' = retryCount + 1
               /\ ret' = ret
               /\ pc' = "loop"
          ELSE /\ ret' = HTTPReturn(resp.body, resp.status, NoError)
               /\ pc' = "returned"
               /\ UNCHANGED <<lastErr, retryCount>>
    /\ UNCHANGED <<request, reqCopy, client, attempts, resp>>
    /\ UNCHANGED <<backend, sent, wire, srcEnd, closed, streamVars,
                   opts, cur, perr, calls, fullContent>>

NextHTTP == HTTPBuildRequest \/ HTTPLoop \/ HTTPDo \/ HTTPRead

SpecHTTP == InitHTTP /\ [][NextHTTP]_vars

\* ------------------------------------------------------------------ processBuffer alone
\* A line of a buffer, by its parts: the text before its first colon, whether
\* it has a colon, and the text after that colon.
Line(name, colon, after) == [name |-> name, colon |-> colon, after |-> after]

ParseLines ==
    { Line(<<"data">>, TRUE, <<SP, "foo">>),
      Line(<<"data">>, TRUE, <<"foo">>),
      Line(<<"data">>, TRUE, <<SP, SP, "a", COLON, "b">>),
      Line(<<"data">>, TRUE, <<COLON, "x">>),
      Line(<<"data">>, TRUE, <<SP>>),
      Line(<<"event">>, TRUE, <<SP, "ping", SP>>),
      Line(<<"id">>, TRUE, <<SP, "7">>),
      Line(<<"retry">>, TRUE, <<SP, "5">>),
      Line(<<>>, TRUE, <<SP, "data", COLON, SP, "c">>),
      Line(<<"data">>, FALSE, <<>>),
      Line(<<"foo">>, TRUE, <<SP, "x">>),
      Line(<<SP, "data">>, TRUE, <<SP, "x">>) }

RenderLine(l) == l.name \o (IF l.colon THEN <<COLON>> ELSE <<>>) \o l.after

\* The buffer ReadEvent hands to processBuffer: the lines, each with its
\* "\n", and the blank line that ended them.
RECURSIVE RenderBuffer(_)
RenderBuffer(lines) ==
    IF lines = <<>> THEN <<NL>>
    ELSE RenderLine(Head(lines)) \o <<NL>> \o RenderBuffer(Tail(lines))

InitParse ==
    /\ backend = "none"
    /\ sent \in SeqsUpTo(ParseLines, MaxParseLines)
    /\ wire = <<>>
    /\ srcEnd = "EOF"
    /\ pos = 0
    /\ buffer = RenderBuffer(sent)
    /\ chunkID = 0
    /\ closed = 0
    /\ results = <<>>
    /\ opts = NoOptions
    /\ pc = "parse"
    /\ cur = NoChunk
    /\ perr = NoError
    /\ calls = <<>>
    /\ fullContent = <<>>
    /\ IdleClient

\* event := r.processBuffer()
ProcessBuffer ==
    /\ pc = "parse"
    /\ results' = <<[ok |-> TRUE, event |-> processBuffer(buffer), err |-> "nil"]>>
    /\ pc' = "parsed"
    /\ UNCHANGED <<clientVars, backend, sent, wire, srcEnd, pos, buffer, chunkID, closed,
                   opts, cur, perr, calls, fullContent>>

NextParse == ProcessBuffer

SpecParse == InitParse /\ [][NextParse]_vars

\* ------------------------------------------------------------------ reading the history
IsChunk(r) == r.chunk # <<>>
IsEOF(r) == r.err = EOF
IsError(r) == r.err.kind \notin {"nil", "EOF"}

\* The last byte of the k-th raw event sent.
EndPos(k) == Len(RenderAll(SubSeq(sent, 1, k)))

\* The reader has taken the k-th raw event off the body.
Consumed(k) == k \in 1..Len(sent) /\ EndPos(k) <= pos

\* The data value of a raw event is a JSON document.
IsJSON(raw) == Len(raw.Data) = 1 /\ raw.Data[1] \in JSONTexts

\* The texts of a chunk's choices, in order.
ChunkTexts(chunk) == [i \in 1..Len(chunk.Choices) |-> chunk.Choices[i].Delta.Content]

\* The texts a JSON document carries for a backend, in order: what a fragment
\* made from it has to deliver.
SourceTexts(b, obj) ==
    CASE b = "anthropic" -> <<obj.delta.text>>
      [] b = "gemini" ->
            LET withText == SelectSeq(obj.candidates,
                                LAMBDA c : c.finishReason # <<>> \/ partsText(c.parts) # <<>>)
            IN  [i \in 1..Len(withText) |->
                    IF withText[i].finishReason # <<>> THEN <<>>
                    ELSE partsText(withText[i].parts)]
      [] OTHER -> [i \in 1..Len(obj.choices) |-> obj.choices[i].delta.content]

\* ------------------------------------------------------------------ claims

\* C1: once a Recv call has returned the completion signal io.EOF or a
\* non-EOF error, no later Recv call on the same stream returns a fragment.
C1_NoFragmentAfterEnd ==
    \A i, j \in 1..Len(results) :
        (i < j /\ results[i].err # NoError) => ~IsChunk(results[j])

\* C2: completion is idempotent: after one Recv call has returned io.EOF,
\* every later Recv call on the stream returns io.EOF as well.
C2_CompletionIdempotent ==
    \A i, j \in 1..Len(results) :
        (i < j /\ IsEOF(results[i])) => (IsEOF(results[j]) /\ results[j].chunk = <<>>)

\* C3: fragments are delivered in wire order and at most once: every
\* fragment comes from one raw event of the wire and carries that event's
\* texts, and a later fragment comes from a raw event strictly later on the
\* wire than the event behind every earlier fragment.
C3_WireOrderAtMostOnce ==
    /\ \A i \in 1..Len(results) :
          IsChunk(results[i]) =>
              /\ results[i].at \in 1..Len(sent)
              /\ IsJSON(sent[results[i].at])
              /\ ChunkTexts(results[i].chunk[1])
                    = SourceTexts(backend, JSONObject(sent[results[i].at].Data[1]))
    /\ \A i, j \in 1..Len(results) :
          (i < j /\ IsChunk(results[i]) /\ IsChunk(results[j]))
              => results[i].at < results[j].at

\* C3 witness: two fragments were delivered, the second after a skipped raw
\* event lying between their two events on the wire.
C3_Witness ==
    \E i, j \in 1..Len(results) :
        /\ i < j /\ IsChunk(results[i]) /\ IsChunk(results[j])
        /\ results[i].at = 1 /\ results[j].at = 3
        /\ ChunkTexts(results[i].chunk[1]) # ChunkTexts(results[j].chunk[1])

\* C4: every Recv call returns exactly one of (fragment, nil), (nil, io.EOF)
\* and (nil, non-EOF *api.Error); never (nil, nil), never a fragment with an
\* error.
C4_RecvOutcomeShape ==
    \A i \in 1..Len(results) :
        LET r == results[i]
        IN  \/ (Len(r.chunk) = 1 /\ r.err = NoError)
            \/ (r.chunk = <<>> /\ r.err = EOF)
            \/ (r.chunk = <<>> /\ r.err.kind = "api.Error")

\* C4 witness: one stream has returned each of the three outcomes, the
\* fragment after raw events that were skipped inside the call.
C4_Witness ==
    \E i, j, k \in 1..Len(results) :
        /\ IsChunk(results[i]) /\ results[i].at > i
        /\ results[j].err.kind = "api.Error"
        /\ IsEOF(results[k])

\* C5: no Recv call returns a fragment whose choices sequence is empty.
C5_NoEmptyChoices ==
    \A i \in 1..Len(results) :
        IsChunk(results[i]) => Len(results[i].chunk[1].Choices) > 0

\* C6: on the simple-delta streams a raw event whose data is exactly
\* "[DONE]" always makes Recv return io.EOF: every such event the reader has
\* taken ended a Recv call, and that call returned (nil, io.EOF).
C6_SentinelCompletes ==
    backend \in {"openai", "deepseek"} =>
        \A k \in 1..Len(sent) :
            (sent[k].Data = <<"[DONE]">> /\ Consumed(k)) =>
                \E i \in 1..Len(results) :
                    /\ results[i].at = k
                    /\ IsEOF(results[i]) /\ results[i].chunk = <<>>

\* C6 witness: a "[DONE]" event that follows a delivered fragment and is
\* followed by another raw event has been read and answered with io.EOF.
C6_Witness ==
    /\ backend \in {"openai", "deepseek"}
    /\ Len(sent) = 3 /\ sent[2].Data = <<"[DONE]">>
    /\ Len(results) >= 2
    /\ IsChunk(results[1])
    /\ results[2].at = 2 /\ IsEOF(results[2])

\* A lifecycle event that ends the response: message_stop, or a
\* message_delta that carries a non-empty stop reason.
Terminal(raw) ==
    LET obj == JSONObject(raw.Data[1])
    IN  \/ obj.type = <<"message_stop">>
        \/ /\ obj.type = <<"message_delta">>
           /\ (obj.message.stop_reason # <<>> \/ obj.delta.stop_reason # <<>>)

IsTextDelta(raw) ==
    LET obj == JSONObject(raw.Data[1])
    IN  obj.type = <<"content_block_delta">> /\ obj.hasDelta /\ obj.delta.type = <<"text">>

\* The raw events before the first terminal event.
RECURSIVE BeforeTerminal(_)
BeforeTerminal(events) ==
    IF events = <<>> \/ Terminal(Head(events)) THEN <<>>
    ELSE <<Head(events)>> \o BeforeTerminal(Tail(events))

\* The texts of the text content_block_delta events before the first
\* terminal event, in wire order.
ExpectedTexts ==
    LET deltas == SelectSeq(BeforeTerminal(sent), IsTextDelta)
    IN  [i \in 1..Len(deltas) |-> JSONObject(deltas[i].Data[1]).delta.text]

\* The first Recv call that returned no fragment; Len(results) + 1 if none.
FirstEnd ==
    IF \E i \in 1..Len(results) : ~IsChunk(results[i])
    THEN CHOOSE i \in 1..Len(results) :
            ~IsChunk(results[i]) /\ \A h \in 1..(i - 1) : IsChunk(results[h])
    ELSE Len(results) + 1

IsPrefix(s, t) == Len(s) <= Len(t) /\ SubSeq(t, 1, Len(s)) = s

\* C7: on the Anthropic stream, for any sequence of well-formed lifecycle
\* events, the fragments returned by successive Recv calls are exactly the
\* text content_block_delta events before the first terminal event, one
\* fragment each, in wire order, followed by the completion signal.
C7_AnthropicFragments ==
    (backend = "anthropic" /\ srcEnd = "EOF" /\ \A k \in 1..Len(sent) : IsJSON(sent[k])) =>
        LET got == [i \in 1..(FirstEnd - 1) |-> results[i].chunk[1].Choices[1].Delta.Content]
        IN  /\ IsPrefix(got, ExpectedTexts)
            /\ FirstEnd <= Len(results) =>
                  (IsEOF(results[FirstEnd]) /\ got = ExpectedTexts)

EmptyCandidates(raw) == raw.Data = <<TxtCandNone>>

\* C8: on the Gemini stream a raw event whose payload has an empty
\* candidates array ends no Recv call: no call returns on it (with a
\* fragment, an error or completion); the call that read it returns on a
\* later raw event or on the end of the input.
C8_GeminiEmptyCandidatesSkipped ==
    backend = "gemini" =>
        \A k \in 1..Len(sent) :
            (EmptyCandidates(sent[k]) /\ Consumed(k)) =>
                /\ \A i \in 1..Len(results) : results[i].at # k
                /\ \E i \in 1..Len(results) : results[i].at > k

\* C8 witness: the first raw event had an empty candidates array, and the
\* first Recv call returned the fragment of the second raw event.
C8_Witness ==
    /\ backend = "gemini"
    /\ Len(sent) >= 2 /\ EmptyCandidates(sent[1])
    /\ Len(results) >= 1 /\ results[1].at = 2 /\ IsChunk(results[1])

\* C9: the Gemini stream returns io.EOF only when the event reader has
\* reached the end of the input: never on a raw event, whatever its payload.
C9_GeminiEOFOnlyAtEnd ==
    backend = "gemini" =>
        \A i \in 1..Len(results) :
            IsEOF(results[i]) =>
                /\ results[i].at = Len(sent) + 1
                /\ pos = Len(wire)
                /\ srcEnd = "EOF"

\* C9 witness: a finishReason event and a "[DONE]" event were both read
\* without completion, and a later call returned io.EOF at the end of input.
C9_Witness ==
    /\ backend = "gemini"
    /\ \E k \in 1..Len(sent) : sent[k].Data = <<TxtCandFin>>
    /\ \E k \in 1..Len(sent) : sent[k].Data = <<DONE>>
    /\ Len(results) = 3
    /\ IsChunk(results[1]) /\ IsError(results[2]) /\ IsEOF(results[3])

\* The positions in calls of the calls of op.
CallsOf(op) == {i \in 1..Len(calls) : calls[i].op = op}

\* C10: in every execution of Process with OnComplete set, OnComplete is
\* invoked exactly once, with nil when the stream completed and otherwise
\* with the error Process returns, and no OnChunk or OnText call follows it.
C10_OnCompleteOnce ==
    (pc # "start" /\ opts.OnComplete) =>
        /\ Cardinality(CallsOf("OnComplete")) <= 1
        /\ pc = "returned" => Cardinality(CallsOf("OnComplete")) = 1
        /\ \A i \in CallsOf("OnComplete") :
              /\ calls[i].err = perr
              /\ (calls[i].err = NoError) <=> IsEOF(results[Len(results)])
              /\ \A j \in (i + 1)..Len(calls) : calls[j].op \notin {"OnChunk", "OnText", "Recv"}

\* C10 witness: Process has returned the error of OnText, raised on the
\* second fragment, after reporting that error to OnComplete.
C10_Witness ==
    /\ pc = "returned" /\ opts.OnComplete /\ opts.OnChunk
    /\ perr = CallbackError("OnText")
    /\ Cardinality(CallsOf("OnText")) = 2
    /\ \E i \in CallsOf("OnComplete") : calls[i].err = perr

\* How Process came to return: on completion, on an error of Recv, or on the
\* error of a callback.
ExitPath ==
    CASE perr = NoError -> "completion"
      [] perr.kind = "api.Error" -> "Recv error"
      [] perr = CallbackError("OnChunk") -> "OnChunk error"
      [] perr = CallbackError("OnText") -> "OnText error"

\* C11: with AutoClose true Process calls stream.Close exactly once on every
\* exit path (completion, Recv error, OnChunk error, OnText error), as it
\* returns and not before; with AutoClose false it never calls Close.
C11_CloseOncePerExit ==
    pc # "start" =>
        /\ Cardinality(CallsOf("Close")) = closed
        /\ closed = IF pc = "returned" /\ opts.AutoClose THEN 1 ELSE 0
        /\ pc = "returned" =>
              ExitPath \in {"completion", "Recv error", "OnChunk error", "OnText error"}

\* C11 witness: Process, run with AutoClose true, has returned the error of
\* OnChunk raised on the second fragment, and the stream was closed once,
\* after the last callback.
C11_Witness ==
    /\ pc = "returned" /\ opts.AutoClose
    /\ ExitPath = "OnChunk error"
    /\ Cardinality(CallsOf("OnChunk")) = 2
    /\ closed = 1 /\ calls[Len(calls)].op = "Close"

\* The caller disabled auto-close in so many words: the options literal
\* names AutoClose and gives it false.
DisabledAutoClose == opts.namesAutoClose /\ ~opts.AutoClose

\* C12: auto-close defaults to true: when Process returns from a call whose
\* options were nil, or a literal that does not name AutoClose or gives it
\* true, the stream has been closed.
C12_AutoCloseDefault ==
    (pc = "returned" /\ ~DisabledAutoClose) => closed >= 1

\* C13: an error returned by OnChunk is fatal to Process: OnComplete (when
\* set) is the next call and gets that error, Process returns that error,
\* and no Recv, OnChunk or OnText call follows, so OnText is not invoked
\* for the fragment OnChunk failed on.
C13_OnChunkErrorFatal ==
    \A i \in CallsOf("OnChunk") :
        calls[i].err # NoError =>
            /\ pc \in {"complete", "defer", "returned"}
            /\ perr = calls[i].err
            /\ \A j \in (i + 1)..Len(calls) : calls[j].op \in {"OnComplete", "Close"}
            /\ (opts.OnComplete /\ pc # "complete") =>
                  /\ i < Len(calls)
                  /\ calls[i + 1] = Call("OnComplete", calls[i].err, <<>>)
                  /\ Cardinality(CallsOf("OnComplete")) = 1
            /\ ~opts.OnComplete => CallsOf("OnComplete") = {}

\* C13 witness: with all three callbacks set, OnChunk failed on the second
\* fragment, which carries text; OnText got the first fragment's text only,
\* and Process has returned OnChunk's error after passing it to OnComplete.
C13_Witness ==
    /\ pc = "returned" /\ opts.OnChunk /\ opts.OnText /\ opts.OnComplete
    /\ perr = CallbackError("OnChunk")
    /\ Cardinality(CallsOf("OnChunk")) = 2
    /\ Cardinality(CallsOf("OnText")) = 1
    /\ Len(cur.Choices) > 0 /\ cur.Choices[1].Delta.Content # <<>>
    /\ \E i \in CallsOf("OnComplete") : calls[i].err = CallbackError("OnChunk")

\* The text of a fragment's first choice; empty when it has no choice.
FirstText(chunk) ==
    IF Len(chunk.Choices) > 0 THEN chunk.Choices[1].Delta.Content ELSE <<>>

\* The first-choice texts of the fragments among rs, concatenated in order.
RECURSIVE DeliveredText(_)
DeliveredText(rs) ==
    IF rs = <<>> THEN <<>>
    ELSE (IF IsChunk(Head(rs)) THEN FirstText(Head(rs).chunk[1]) ELSE <<>>)
         \o DeliveredText(Tail(rs))

\* C14: when CollectFullContent returns from a stream that ended with
\* completion, the error is nil, the string is the concatenation, in order,
\* of the first choice's text of every fragment the stream delivered, and
\* completion was handled once: one Recv call returned io.EOF, the last one,
\* and the stream was closed once.
C14_CollectFullContent ==
    (pc = "returned" /\ IsEOF(results[Len(results)])) =>
        /\ perr = NoError
        /\ fullContent = DeliveredText(results)
        /\ Cardinality({i \in 1..Len(results) : IsEOF(results[i])}) = 1
        /\ closed = 1

\* C14 witness: the fragments "Hel" and "lo" and then "[DONE]" have been
\* collected into "Hello".
C14_Witness ==
    /\ pc = "returned" /\ backend = "openai"
    /\ sent = <<Raw(<<>>, <<TxtHel>>), Raw(<<>>, <<TxtLo>>), Raw(<<>>, <<DONE>>)>>
    /\ IsEOF(results[Len(results)])
    /\ fullContent = <<"Hel", "lo">> /\ perr = NoError

\* A raw event whose data value is not empty, is not a JSON document and is
\* not the "[DONE]" sentinel of a simple-delta stream.
Malformed(raw) ==
    /\ raw.Data # <<>>
    /\ ~IsJSON(raw)
    /\ ~(backend \in {"openai", "deepseek"} /\ raw.Data = <<DONE>>)

\* The last Recv call Process made.
LastRecv == CHOOSE j \in CallsOf("Recv") : \A l \in CallsOf("Recv") : l <= j

IsReadError(r) == r.err.kind = "api.Error" /\ r.err.Raw = srcEnd

\* C16: on every backend a read error of the transport in the middle of the
\* stream comes out of Recv as an *api.Error of kind Connection that wraps
\* it, and malformed JSON as one of kind Server.
C16_ReadErrorIsConnection ==
    \A i \in 1..Len(results) :
        /\ IsReadError(results[i]) => results[i].err.Type = ErrorTypeConnection
        /\ (results[i].err.kind = "api.Error" /\ results[i].err.Raw = "json")
              => results[i].err.Type = ErrorTypeServer

\* C17: Close is idempotent on every backend stream: whatever the body
\* returns to a second Close, every Close call after the first returns nil.
C17_CloseIdempotent ==
    \A i, j \in CallsOf("Close") : i < j => calls[j].err = NoError

\* A line "data: P", and its P.
IsDataLine(line) == Len(line) >= 3 /\ SubSeq(line, 1, 3) = <<"data", COLON, SP>>
Payload(line) == SubSeq(line, 4, Len(line))

\* The body is exactly one data line and a blank line, and ends with EOF.
SingleDataInput ==
    /\ Len(sent) = 2 /\ IsDataLine(sent[1]) /\ sent[2] = <<>>
    /\ wire = RenderLines(sent)
    /\ srcEnd = "EOF"

\* The first ReadEvent call returned an event with data P and nothing else
\* set, and the second returned io.EOF.
OneEventThenEOF(P) ==
    /\ Len(results) >= 1 =>
          (results[1].ok /\ results[1].event = [ZeroEvent EXCEPT !.Data = P])
    /\ Len(results) >= 2 => (~results[2].ok /\ results[2].err = "EOF")

\* C18: for every input "data: P\n\n" the first ReadEvent call returns one
\* event whose Data is P and the next returns io.EOF.
C18_SingleDataEvent ==
    SingleDataInput => OneEventThenEOF(Payload(sent[1]))

\* C18, amended: the same for every input "data: P\n\n" whose P is not
\* empty; for an empty P the reader returns no event.
C18_SingleDataEventNonEmpty ==
    /\ (SingleDataInput /\ Payload(sent[1]) # <<>>) => OneEventThenEOF(Payload(sent[1]))
    /\ (SingleDataInput /\ Payload(sent[1]) = <<>> /\ Len(results) >= 1) =>
          (~results[1].ok /\ results[1].err = "EOF")

\* C18 witness: the input "data:  a:b\n\n", whose P starts with a space and
\* holds a colon, has been read: one event with Data " a:b", then io.EOF.
C18_Witness ==
    /\ SingleDataInput /\ Payload(sent[1]) = <<SP, "a", COLON, "b">>
    /\ Len(results) = 2
    /\ results[1].ok /\ results[1].event.Data = <<SP, "a", COLON, "b">>
    /\ ~results[2].ok /\ results[2].err = "EOF"

\* The values of the data lines `lines`, in order, with one "\n" between
\* consecutive values.
RECURSIVE JoinValues(_)
JoinValues(lines) ==
    IF Len(lines) = 1 THEN Payload(lines[1])
    ELSE Payload(lines[1]) \o <<NL>> \o JoinValues(Tail(lines))

\* The body starts with k data lines and the blank line that ends them.
StartsWithDataLines(k) ==
    /\ k + 1 <= Len(sent)
    /\ \A i \in 1..k : IsDataLine(sent[i])
    /\ sent[k + 1] = <<>>

\* C19: several data lines before the blank line make a single event whose
\* Data is their values, in order, joined by one "\n" between consecutive
\* values: the first ReadEvent call returns that event.
C19_MultiLineData ==
    \A k \in 2..MaxLines :
        (StartsWithDataLines(k) /\ Len(results) >= 1) =>
            /\ results[1].ok
            /\ results[1].event.Data = JoinValues(SubSeq(sent, 1, k))

\* An event with a data value or a name.
Surfaced(event) == event.Data # <<>> \/ event.Event # <<>>

\* The events of the groups of lines that a blank line ends, in order,
\* leaving out the groups that give neither a data value nor a name; acc is
\* the group being gathered.
RECURSIVE GroupEvents(_, _)
GroupEvents(lines, acc) ==
    IF lines = <<>> THEN <<>>
    ELSE IF Head(lines) = <<>>
    THEN (IF Surfaced(parseLines(ZeroEvent, acc))
          THEN <<parseLines(ZeroEvent, acc)>> ELSE <<>>)
         \o GroupEvents(Tail(lines), <<>>)
    ELSE GroupEvents(Tail(lines), Append(acc, Head(lines)))

\* A line that gives an event neither data nor a name: a comment, or an id,
\* retry or unknown field.
SilentLine(line) ==
    line \in {<<COLON, "c">>, <<"id", COLON, SP, "7">>,
              <<"retry", COLON, SP, "5">>, <<"foo", COLON, SP, "x">>}

\* C20: every event ReadEvent returns has a non-empty Data or a non-empty
\* Event name; the groups that give neither are not returned and end no
\* call: the successive calls return the events of the other groups, one
\* each, in order.
C20_NoEmptyEvent ==
    /\ \A i \in 1..Len(results) : results[i].ok => Surfaced(results[i].event)
    /\ LET groups == GroupEvents(sent, <<>>)
       IN  \A i \in 1..Len(results) :
              i <= Len(groups) => (results[i].ok /\ results[i].event = groups[i])

\* C20 witness: a group of one silent line, then the group "data: foo"; the
\* first ReadEvent call read through both and returned the second group's
\* event, with nothing of the first in it.
C20_Witness ==
    /\ Len(sent) = 4 /\ SilentLine(sent[1]) /\ sent[2] = <<>>
    /\ sent[3] = <<"data", COLON, SP, "foo">> /\ sent[4] = <<>>
    /\ Len(results) >= 1 /\ results[1].ok
    /\ results[1].event = [ZeroEvent EXCEPT !.Data = <<"foo">>]
    /\ pos = Len(wire)

\* The lines of the body that end with "\n": all of them, or all but the
\* last when the body stops in the middle of its last line.
CompleteLines ==
    IF wire = RenderLines(sent) THEN sent ELSE SubSeq(sent, 1, Len(sent) - 1)

\* The lines after the last blank line of `lines`.
RECURSIVE AfterLastBlank(_)
AfterLastBlank(lines) ==
    IF lines = <<>> \/ lines[Len(lines)] = <<>> THEN <<>>
    ELSE Append(AfterLastBlank(SubSeq(lines, 1, Len(lines) - 1)), lines[Len(lines)])

\* The field group the reader holds when the input ends: the complete lines
\* that no blank line has ended.
PendingGroup == AfterLastBlank(CompleteLines)

\* The i-th ReadEvent call returned (nil, io.EOF).
ReadEOF(i) == ~results[i].ok /\ results[i].err = "EOF"

\* C21: at the end of the input, a pending group that no blank line ended
\* and that has a data value or an event name is returned as one last event
\* with nil error, and the call after it returns io.EOF; with nothing
\* pending (or a pending group without data and name) io.EOF is returned
\* directly.  n is the number of events of the groups a blank line ended.
C21_PendingGroupAtEOF ==
    srcEnd = "EOF" =>
        LET n == Len(GroupEvents(sent, <<>>))
            last == parseLines(ZeroEvent, PendingGroup)
        IN  IF Surfaced(last)
            THEN /\ Len(results) >= n + 1 =>
                      (results[n + 1].ok /\ results[n + 1].event = last)
                 /\ Len(results) >= n + 2 => ReadEOF(n + 2)
            ELSE Len(results) >= n + 1 => ReadEOF(n + 1)

\* C21 witness: the body "data: foo\n\nevent: ping\ndata: bar\n" ended
\* without a blank line after its second group; the calls returned the first
\* event, then the pending group as an event, then io.EOF.
C21_Witness ==
    /\ srcEnd = "EOF" /\ wire = RenderLines(sent)
    /\ sent = << <<"data", COLON, SP, "foo">>, <<>>,
                 <<"event", COLON, SP, "ping">>, <<"data", COLON, SP, "bar">> >>
    /\ Len(results) = 3
    /\ results[2].ok /\ results[2].event.Data = <<"bar">>
    /\ results[2].event.Event = <<"ping">>
    /\ ReadEOF(3)

C23_StreamXorError ==
    (pc = "returned" /\ request.op = "CompleteStream") =>
        /\ ret.value \in {"stream", "nil"}
        /\ (ret.value = "stream") <=> (ret.err = NoError)
        /\ validateRequest(backend, request.kind) # NoError => ret.value = "nil"
        /\ resp = NoResponse => ret.value = "nil"
        /\ (resp # NoResponse /\ resp.status # 200) =>
              (ret.value = "nil" /\ closed = 1)

C23_Witness ==
    /\ pc = "returned"
    /\ request.op = "CompleteStream"
    /\ resp # NoResponse
    /\ resp.status = 429
    /\ ret.value = "nil"
    /\ ret.err.Type = ErrorTypeRateLimit
    /\ closed = 1

\* A call that reported a failure of the kind a retry is for: the transport
\* failed, or the server answered with a 5xx status.
TransientFailure ==
    /\ pc = "returned"
    /\ ret.err # NoError
    /\ \/ attempts > 0 /\ resp = NoResponse
       \/ resp.status >= 500

\* C25: a client configured with MaxRetries = n reports a transport failure
\* or a 5xx status of Complete or CompleteStream only after it has made the
\* request n more times than the first.
C25_RetriesBeforeFailure ==
    TransientFailure => attempts = client.maxRetries + 1

\* A Recv result that carries the error of a context that is done.
IsCtxError(r) == r.err.kind = "api.Error" /\ r.err.Raw \in CtxErrors

\* C24: a Recv that was blocked reading when the context was canceled, or
\* when its deadline passed, returns an error of kind Timeout.
C24_CanceledRecvIsTimeout ==
    \A i \in 1..Len(results) :
        IsCtxError(results[i]) => results[i].err.Type = ErrorTypeTimeout

\* A raw event whose payload is an Anthropic message_delta, and one whose
\* payload carries a stop reason, under message or under delta.
IsMessageDelta(raw) ==
    raw.Data \in {<<TxtMsgDeltaMsg>>, <<TxtMsgDeltaDelta>>, <<TxtMsgDeltaNone>>}
CarriesStopReason(raw) ==
    raw.Data \in {<<TxtMsgDeltaMsg>>, <<TxtMsgDeltaDelta>>}

\* C26: on the Anthropic stream the Recv call that reads a message_delta
\* event with a non-empty stop reason returns the completion signal on it,
\* whether the payload carries the stop reason under message or under
\* delta; a message_delta event without a stop reason ends no call.
C26_MessageDeltaStopReason ==
    backend = "anthropic" =>
        \A k \in 1..Len(sent) :
            (IsMessageDelta(sent[k]) /\ Consumed(k)) =>
                IF CarriesStopReason(sent[k])
                THEN \E i \in 1..Len(results) : results[i].at = k /\ IsEOF(results[i])
                ELSE \A i \in 1..Len(results) : results[i].at # k

\* The object the payload of a raw event denotes.
PayloadObject(raw) == JSONObject(raw.Data[1])

IsBlockDelta(raw) ==
    IsJSON(raw) /\ PayloadObject(raw).type = <<"content_block_delta">>

\* The Recv calls that returned on the k-th raw event.
ReturnsAt(k) == {i \in 1..Len(results) : results[i].at = k}

\* C27: on the Anthropic stream a content_block_delta event whose delta has
\* sub-type text ends exactly one Recv call, with a fragment of one choice:
\* index the block index, role assistant, text the delta's text, empty or
\* not.  A content_block_delta event without delta, or with a delta of
\* another sub-type, ends no call.
C27_TextDeltaFragment ==
    backend = "anthropic" =>
        \A k \in 1..Len(sent) :
            (IsBlockDelta(sent[k]) /\ Consumed(k)) =>
                LET obj == PayloadObject(sent[k])
                IN  IF obj.hasDelta /\ obj.delta.type = <<"text">>
                    THEN /\ Cardinality(ReturnsAt(k)) = 1
                         /\ \A i \in ReturnsAt(k) :
                               /\ IsChunk(results[i])
                               /\ results[i].chunk[1].Choices =
                                     <<ChunkChoice(obj.index, RoleAssistant, obj.delta.text, <<>>)>>
                    ELSE ReturnsAt(k) = {}

\* C27 witness: a text delta with empty text for block 1 gave a fragment, and
\* a content_block_delta without delta before it was passed over.
C27_Witness ==
    /\ backend = "anthropic"
    /\ Len(sent) >= 2
    /\ sent[1].Data = <<TxtDeltaMissing>>
    /\ sent[2].Data = <<TxtDeltaEmpty>>
    /\ Len(results) >= 1
    /\ results[1].at = 2
    /\ IsChunk(results[1])
    /\ results[1].chunk[1].Choices = <<ChunkChoice(1, RoleAssistant, <<>>, <<>>)>>

\* The event types anthropicResponseStream.Recv acts on.
ActedOnTypes == {<<"message_stop">>, <<"content_block_delta">>, <<"message_delta">>}

\* A raw event of the kinds C28 lists: no data, or a payload of type
\* message_start, content_block_start, content_block_stop or of a type the
\* stream does not know.
IsLifecycleNoise(raw) ==
    \/ raw.Data = <<>>
    \/ IsJSON(raw) /\ PayloadObject(raw).type \notin ActedOnTypes

\* C28: on the Anthropic stream a message_start, content_block_start or
\* content_block_stop event, an event of an unrecognized type and a raw
\* event without data end no Recv call: no call returns on one with a
\* fragment, an error or completion, and the call that read it returns on a
\* later raw event or on the end of the input.
C28_LifecycleEventsSkipped ==
    backend = "anthropic" =>
        \A k \in 1..Len(sent) :
            (IsLifecycleNoise(sent[k]) /\ Consumed(k)) =>
                /\ ReturnsAt(k) = {}
                /\ \E i \in 1..Len(results) : results[i].at > k

\* C28 witness: message_start, content_block_start and a ping came before a
\* text delta, and the first Recv call returned the fragment of the delta.
C28_Witness ==
    /\ backend = "anthropic"
    /\ Len(sent) = 3
    /\ sent[1].Data = <<TxtMsgStart>>
    /\ sent[2].Data \in {<<TxtBlockStart>>, <<TxtBlockStartNone>>}
    /\ sent[3].Data = <<TxtDeltaA>>
    /\ Len(results) >= 1
    /\ results[1].at = 3
    /\ IsChunk(results[1])

\* The text of a candidate: its parts' texts, joined.
CandidateText(c) ==
    LET Join[n \in 0..Len(c.parts)] ==
            IF n = 0 THEN <<>> ELSE Join[n - 1] \o c.parts[n]
    IN  Join[Len(c.parts)]

GivesChoice(c) == c.finishReason # <<>> \/ CandidateText(c) # <<>>

\* The choices C29 gives for a Gemini payload: one for each candidate that
\* has a finish reason or text, in candidate order.
ExpectedChoices(obj) ==
    LET giving == SelectSeq(obj.candidates, GivesChoice)
    IN  [i \in 1..Len(giving) |->
            IF giving[i].finishReason # <<>>
            THEN ChunkChoice(giving[i].index, RoleAssistant, <<>>, giving[i].finishReason)
            ELSE ChunkChoice(giving[i].index, RoleAssistant, CandidateText(giving[i]), <<>>)]

\* C29: on the Gemini stream each candidate of an event gives at most one
\* choice, in candidate order: a candidate with a finish reason gives a
\* choice with empty text and that finish reason; one without, whose parts
\* join to a non-empty text, gives a choice with that text; any other gives
\* none.  An event none of whose candidates gives a choice ends no Recv call.
C29_GeminiChoices ==
    backend = "gemini" =>
        \A k \in 1..Len(sent) :
            (IsJSON(sent[k]) /\ Consumed(k)) =>
                IF ExpectedChoices(PayloadObject(sent[k])) = <<>>
                THEN ReturnsAt(k) = {}
                ELSE /\ ReturnsAt(k) # {}
                     /\ \A i \in ReturnsAt(k) :
                           /\ IsChunk(results[i])
                           /\ results[i].chunk[1].Choices = ExpectedChoices(PayloadObject(sent[k]))

\* C29 witness: an event of three candidates (text, nothing, finish reason)
\* gave a fragment of two choices, and an event whose candidate has both
\* text and a finish reason gave the finish reason with empty text.
C29_Witness ==
    /\ backend = "gemini"
    /\ Len(sent) >= 2
    /\ sent[1].Data = <<TxtCandMany>>
    /\ sent[2].Data = <<TxtCandFinText>>
    /\ Len(results) >= 2
    /\ results[1].chunk[1].Choices =
          <<ChunkChoice(0, RoleAssistant, <<"a">>, <<>>), ChunkChoice(2, RoleAssistant, <<>>, <<"STOP">>)>>
    /\ results[2].chunk[1].Choices = <<ChunkChoice(0, RoleAssistant, <<>>, <<"STOP">>)>>

\* The texts passed to OnText, in call order.
OnTextTexts ==
    LET Texts[n \in 0..Len(calls)] ==
            IF n = 0 THEN <<>>
            ELSE IF calls[n].op = "OnText" THEN Append(Texts[n - 1], calls[n].text)
            ELSE Texts[n - 1]
    IN  Texts[Len(calls)]

\* The Recv results whose fragment Process has taken past its OnText step:
\* all but the last while that one is still at a callback, or when OnChunk
\* failed on it.
PastOnText ==
    IF pc \in {"onchunk", "ontext"} \/ perr = CallbackError("OnChunk")
    THEN SubSeq(results, 1, Len(results) - 1)
    ELSE results

\* The non-empty first-choice texts of the fragments among rs, in order.
NonEmptyFirstTexts(rs) ==
    LET Texts[n \in 0..Len(rs)] ==
            IF n = 0 THEN <<>>
            ELSE IF IsChunk(rs[n]) /\ FirstText(rs[n].chunk[1]) # <<>>
            THEN Append(Texts[n - 1], FirstText(rs[n].chunk[1]))
            ELSE Texts[n - 1]
    IN  Texts[Len(rs)]

FieldValue(l) == IF l.after # <<>> /\ l.after[1] = SP THEN Tail(l.after) ELSE l.after

\* A line C31 says changes nothing: a comment, a line without a colon, a
\* field that is not event, data, id or retry.
IgnoredLine(l) ==
    \/ ~l.colon
    \/ l.name = <<>>
    \/ l.name \notin {<<"event">>, <<"data">>, <<"id">>, <<"retry">>}

\* The event of a buffer whose only effective line is l.
SingleFieldEvent(l) ==
    IF IgnoredLine(l) THEN ZeroEvent
    ELSE CASE l.name = <<"event">> -> [ZeroEvent EXCEPT !.Event = FieldValue(l)]
           [] l.name = <<"data">> -> [ZeroEvent EXCEPT !.Data = FieldValue(l)]
           [] l.name = <<"id">> -> [ZeroEvent EXCEPT !.ID = FieldValue(l)]
           [] l.name = <<"retry">> -> [ZeroEvent EXCEPT !.Retry = RetryDefault]

\* C31: a buffered line is split on its first colon only: the field is the
\* text before it, the value the text after it less at most one leading
\* space, further spaces and colons staying in the value.  A line that
\* starts with a colon, a line without a colon and a line whose field is not
\* event, data, id or retry leave the event as it was, before or after
\* another line.
C31_FieldParsing ==
    pc = "parsed" =>
        /\ Len(sent) = 1 => results[1].event = SingleFieldEvent(sent[1])
        /\ (Len(sent) = 2 /\ IgnoredLine(sent[2])) =>
              results[1].event = SingleFieldEvent(sent[1])
        /\ (Len(sent) = 2 /\ IgnoredLine(sent[1])) =>
              results[1].event = SingleFieldEvent(sent[2])

\* C31 witness: the buffer "data:  a:b\ndata\n\n" was parsed: the value
\* keeps its second space and its colon, and the line without a colon
\* changed nothing.
C31_Witness ==
    /\ pc = "parsed"
    /\ sent = <<Line(<<"data">>, TRUE, <<SP, SP, "a", COLON, "b">>), Line(<<"data">>, FALSE, <<>>)>>
    /\ results[1].event = [ZeroEvent EXCEPT !.Data = <<SP, "a", COLON, "b">>]

\* The groups of lines whose event is returned, in order: those a blank
\* line ended and, at the end of the input, the pending one; acc is the
\* group being gathered.
RECURSIVE SurfacedGroups(_, _)
SurfacedGroups(lines, acc) ==
    IF lines = <<>> THEN <<>>
    ELSE IF Head(lines) = <<>>
    THEN (IF Surfaced(parseLines(ZeroEvent, acc)) THEN <<acc>> ELSE <<>>)
         \o SurfacedGroups(Tail(lines), <<>>)
    ELSE SurfacedGroups(Tail(lines), Append(acc, Head(lines)))

ReturnedGroups ==
    SurfacedGroups(sent, <<>>)
    \o (IF srcEnd = "EOF" /\ Surfaced(parseLines(ZeroEvent, PendingGroup))
        THEN <<PendingGroup>> ELSE <<>>)

Tokens(s) == {s[j] : j \in 1..Len(s)}

\* Every field of event comes from a line of group: its name, its id and
\* its retry from a line of that field, each word of its data from a data
\* line.
OnlyFrom(event, group) ==
    /\ event.Event # <<>> => \E j \in 1..Len(group) : group[j] = <<"event", COLON, SP>> \o event.Event
    /\ event.ID # <<>> => \E j \in 1..Len(group) : group[j] = <<"id", COLON, SP>> \o event.ID
    /\ event.Retry # 0 => \E j \in 1..Len(group) : group[j][1] = "retry"
    /\ \A t \in Tokens(event.Data) \ {NL, SP, COLON} :
          \E j \in 1..Len(group) : IsDataLine(group[j]) /\ t \in Tokens(group[j])

\* C32: an event that ReadEvent returns has fields only from the lines of
\* its own group, those that came after the blank line that ended the group
\* before it: no name, id, retry or data value of an earlier group is in
\* it, whether that group was returned or dropped as empty.
C32_BufferResets ==
    LET groups == ReturnedGroups
    IN  \A i \in 1..Len(results) :
            results[i].ok =>
                /\ i <= Len(groups)
                /\ OnlyFrom(results[i].event, groups[i])

\* C32 witness: the group "id: 7" was dropped as empty, and the group
\* "data: foo" after it came back as an event with no id.
C32_Witness ==
    /\ Len(sent) >= 4
    /\ SubSeq(sent, 1, 4) = << <<"id", COLON, SP, "7">>, <<>>,
                               <<"data", COLON, SP, "foo">>, <<>> >>
    /\ Len(results) >= 1
    /\ results[1].ok
    /\ results[1].event = [ZeroEvent EXCEPT !.Data = <<"foo">>]

\* The body stops in the middle of its last line.
EndsMidLine == wire # RenderLines(sent)

\* C36: when the body ends in the middle of a line, the bytes of that line
\* are in no returned event: the calls return the events of the groups a
\* blank line ended, then the event of the complete lines after the last
\* blank line if they give one, then io.EOF, as if the body had ended
\* before the unfinished line.
C36_PartialLineDiscarded ==
    (EndsMidLine /\ srcEnd = "EOF") =>
        LET whole == SubSeq(sent, 1, Len(sent) - 1)
            groups == GroupEvents(whole, <<>>)
            last == parseLines(ZeroEvent, AfterLastBlank(whole))
            expected == IF Surfaced(last) THEN Append(groups, last) ELSE groups
        IN  \A i \in 1..Len(results) :
                IF i <= Len(expected)
                THEN results[i].ok /\ results[i].event = expected[i]
                ELSE ReadEOF(i)

\* C36 witness: the body "data: foo\ndata: bar" ended without a newline:
\* one event with Data "foo", then io.EOF.
C36_Witness ==
    /\ EndsMidLine /\ srcEnd = "EOF"
    /\ sent = << <<"data", COLON, SP, "foo">>, <<"data", COLON, SP, "bar">> >>
    /\ Len(results) = 2
    /\ results[1].ok /\ results[1].event = [ZeroEvent EXCEPT !.Data = <<"foo">>]
    /\ ReadEOF(2)


\* How many of the first i Recv calls returned a fragment.
FragmentsUpTo(i) == Cardinality({j \in 1..i : IsChunk(results[j])})

\* C33: on the Gemini stream the k-th fragment returned by Recv has the ID
\* "chunk-k": the counter is the number of fragments returned so far, and
\* neither a skipped raw event nor a call that ends in an error advances it.
C33_GeminiChunkIDs ==
    backend = "gemini" =>
        /\ chunkID = FragmentsUpTo(Len(results))
        /\ \A i \in 1..Len(results) :
              IsChunk(results[i]) => results[i].chunk[1].ID = <<"chunk-", FragmentsUpTo(i)>>

\* C33 witness: malformed JSON, then an event without candidates, then a
\* fragment: the first call failed, the second skipped one event and
\* returned the fragment "chunk-1".
C33_Witness ==
    /\ backend = "gemini"
    /\ Len(sent) = 3
    /\ sent[1].Data = <<BadJSON>> /\ sent[2].Data = <<TxtCandNone>> /\ sent[3].Data = <<TxtCandHel>>
    /\ Len(results) >= 2
    /\ ~IsChunk(results[1])
    /\ IsChunk(results[2]) /\ results[2].at = 3
    /\ results[2].chunk[1].ID = <<"chunk-", 1>>


\* The fragment a call of Process is about: what the latest Recv call before
\* the i-th call returned.
FragmentAt(i) == results[Cardinality({j \in 1..i : calls[j].op = "Recv"})]

\* C34: within one Process call the calls are ordered.  OnChunk directly
\* follows the Recv call that returned its fragment; OnText follows that Recv
\* call or the fragment's successful OnChunk, and carries that fragment's
\* text; Recv is called only after the callbacks of the fragment before have
\* returned nil; OnComplete is called once, after every fragment callback, and
\* nothing but the deferred Close follows it.
C34_CallbackOrder ==
    /\ \A i \in 1..Len(calls) :
          /\ calls[i].op = "OnChunk" =>
                i > 1 /\ calls[i - 1].op = "Recv" /\ calls[i - 1].err = NoError
          /\ calls[i].op = "OnText" =>
                /\ i > 1 /\ calls[i - 1].op \in {"Recv", "OnChunk"}
                /\ calls[i - 1].err = NoError
                /\ IsChunk(FragmentAt(i))
                /\ calls[i].text = FirstText(FragmentAt(i).chunk[1])
          /\ (calls[i].op = "Recv" /\ i > 1) =>
                calls[i - 1].op \in {"Recv", "OnChunk", "OnText"} /\ calls[i - 1].err = NoError
          /\ calls[i].op = "OnComplete" =>
                \A j \in 1..Len(calls) :
                    /\ j < i => calls[j].op \in {"Recv", "OnChunk", "OnText"}
                    /\ j > i => calls[j].op = "Close"
          /\ calls[i].op = "Close" => i = Len(calls) /\ pc = "returned"
    /\ (pc \in {"defer", "returned"} /\ opts.OnComplete) =>
          Cardinality(CallsOf("OnComplete")) = 1

\* C34 witness: Process has returned from a stream of two fragments with
\* every callback set and AutoClose: Recv, OnChunk, OnText twice over, the
\* Recv call that returned io.EOF, OnComplete, Close.
C34_Witness ==
    /\ pc = "returned"
    /\ Len(calls) = 9
    /\ [i \in 1..9 |-> calls[i].op] =
          <<"Recv", "OnChunk", "OnText", "Recv", "OnChunk", "OnText",
            "Recv", "OnComplete", "Close">>


\* The texts of the writer.Write calls that returned nil, concatenated in
\* order: what StreamToWriter has written to the writer.
Written ==
    LET Texts[n \in 0..Len(calls)] ==
            IF n = 0 THEN <<>>
            ELSE IF calls[n].op = "Write" /\ calls[n].err = NoError
            THEN Texts[n - 1] \o calls[n].text
            ELSE Texts[n - 1]
    IN  Texts[Len(calls)]

\* The stream failed: the last Recv call returned an error other than io.EOF.
StreamFailed == Len(results) > 0 /\ IsError(results[Len(results)])

\* C35: when the stream fails after some fragments, CollectFullContent
\* returns the error of that Recv call together with the concatenation of the
\* texts received before it, and StreamToWriter returns that error having
\* written those texts; a failed writer.Write is the last Write call, no Recv
\* call follows it, and its error is what StreamToWriter returns.
C35_PartialContentOnFailure ==
    /\ (pc = "returned" /\ StreamFailed) =>
          /\ perr = results[Len(results)].err
          /\ opts.handler = "CollectFullContent" => fullContent = DeliveredText(results)
          /\ opts.handler = "StreamToWriter" => Written = DeliveredText(results)
    /\ \A i \in CallsOf("Write") :
          calls[i].err # NoError =>
              /\ perr = calls[i].err
              /\ \A j \in (i + 1)..Len(calls) : calls[j].op \notin {"Recv", "Write"}
              /\ Written = DeliveredText(SubSeq(results, 1, Len(results) - 1))

\* C35 witness: CollectFullContent has returned from a stream that sent
\* "Hel", "lo" and then malformed JSON: the Server error and "Hello".
C35_Witness ==
    /\ pc = "returned" /\ opts.handler = "CollectFullContent"
    /\ Len(sent) = 3 /\ sent[3].Data = <<BadJSON>>
    /\ StreamFailed
    /\ perr.kind = "api.Error" /\ perr.Type = ErrorTypeServer
    /\ fullContent = <<"Hel", "lo">>


\* Recv has been called and has not returned.
InRecv == pc = "recv"

\* What the first n Recv calls return on the stream whose reader is at
\* position p with buffer buf and whose counter is id.
RECURSIVE RecvHistory(_, _, _, _)
RecvHistory(p, buf, id, n) ==
    IF n = 0 THEN <<>>
    ELSE LET r == StreamRecv(p, buf, id)
         IN  <<[chunk |-> r.chunk, err |-> r.err, at |-> EventAt(r)]>>
             \o RecvHistory(r.pos, r.buffer, r.chunkID, n - 1)

\* What is left to read: the bytes of the body not yet read, counted twice,
\* and the bytes in the buffer.
Unread == 2 * (Len(wire) - pos) + Len(buffer)

\* C37: on a finite body every Recv call returns and Process returns.
\* Within a Recv call each round of the reader's loop and each call Recv
\* makes to itself leaves less to read than it found, and what the calls
\* return, round by round, is what Recv returns.
C37_Terminates ==
    /\ [](results = RecvHistory(0, <<>>, 0, Len(results)))
    /\ [][(InRecv /\ pc' = "recv") => Unread' < Unread]_vars
    /\ InRecv ~> ~InRecv
    /\ <>(pc = "returned")

\* C37 witness: Process has returned from a stream whose two raw events
\* Recv passed over, one after the other, within its only call.
C37_Witness ==
    /\ pc = "returned"
    /\ Len(sent) = 2
    /\ RecvSkips(backend, sent[1]) /\ RecvSkips(backend, sent[2])
    /\ Len(results) = 1 /\ pos = Len(wire)


\* CompleteStream got as far as its copy of the request.
Copied ==
    /\ request.op = "CompleteStream"
    /\ validateRequest(backend, request.kind) = NoError
    /\ pc # "client"

\* C38: CompleteStream never changes the request it was given: what the
\* request holds and its Stream flag are after the return, with a stream or
\* with an error, what they were at the call.  The flag is set on the copy,
\* which otherwise holds what the request holds.
C38_RequestUnchanged ==
    /\ [][request' = request]_vars
    /\ [](Copied =>
            /\ reqCopy = StreamCopy(backend, request)
            /\ reqCopy.kind = request.kind
            /\ backend # "gemini" => reqCopy.Stream)

\* C38 witness: CompleteStream has returned a stream for a request whose
\* Stream flag is false, and the flag is still false; the copy has it true.
C38_Witness ==
    /\ pc = "returned" /\ request.op = "CompleteStream"
    /\ ret.value = "stream"
    /\ ~request.Stream /\ reqCopy.Stream


\* DoHTTPRequest has returned after the attempt that failed to send or to
\* read: the error of kind Connection around that attempt's error.
ReturnedLastError ==
    /\ lastErr.kind = "transport"
    /\ ret.err = NewError(ErrorTypeConnection, lastErr.Raw)

\* C39: DoHTTPRequest with MaxRetries = n makes at most n + 1 attempts.  A
\* 5xx response ends an iteration only while attempts remain; the last
\* allowed attempt's response is returned with its body and status and a
\* nil error whatever the status.  The error of kind Connection around a
\* transport error is returned exactly when the last of the n + 1 attempts
\* failed to send or to read, and no Server or Unknown error is returned.
C39_RetryLoop ==
    /\ attempts <= client.maxRetries + 1
    /\ lastErr.Type = ErrorTypeServer => retryCount <= client.maxRetries
    /\ pc = "returned" =>
          /\ ret.err = NoError =>
                (resp # NoResponse /\ ret.value = resp.body /\ ret.status = resp.status)
          /\ ret.err # NoError => (ret.value = "nil" /\ ret.status = 0)
          /\ (ret.err = NoError /\ resp.status >= 500) => attempts = client.maxRetries + 1
          /\ (ret.err = NoError /\ attempts <= client.maxRetries) => resp.status < 500
          /\ (ret.err.Type = ErrorTypeConnection /\ ret.err.Raw # "NewRequest") <=>
                (attempts = client.maxRetries + 1 /\ retryCount = client.maxRetries + 1)
          /\ retryCount = client.maxRetries + 1 => ReturnedLastError
          /\ ret.err.Type \notin {ErrorTypeServer, ErrorTypeUnknown}

\* C39 witness: with MaxRetries = 1 the first attempt got a 500 and was
\* retried; the second got a 500 too, which was returned with a nil error.
C39_Witness ==
    /\ pc = "returned" /\ request.op = "DoHTTPRequest"
    /\ client.maxRetries = 1 /\ attempts = 2
    /\ lastErr.Type = ErrorTypeServer
    /\ resp.status = 500 /\ ret.status = 500 /\ ret.err = NoError

====
